---------------------------- MODULE Spec2Model ----------------------------
(***************************************************************************)
(* A model of the BallPit simulation core: the uniform-grid Partition      *)
(* (src/src/partition.ts) and the BallSolver (src/src/ballSolver.ts,       *)
(* the current class at lines 286-621), and of the page that drives it:    *)
(* the callbacks of src/src/app.ts (lines 1-116) and of the Controller     *)
(* (src/src/controller.ts).                                                *)
(*                                                                         *)
(* Numbers.  The program computes with IEEE doubles.  Here every number    *)
(* is a fixed-point value n/Scale held as the integer n, so 1.0 is Scale,  *)
(* the radius 0.1 is 100 and the timestep 0.01 is 10.  Sums, differences   *)
(* and comparisons are exact; products, quotients and the square root      *)
(* round to the nearest representable value (Mul, Div, Length), as every   *)
(* floating-point operation of the program does.  The length of the vector *)
(* between two colliding centers is kept with as many digits as 32-bit     *)
(* integers allow (PreciseLength) and the collision normal derived from it *)
(* with one more decimal digit (unit 1/NormalScale), so that the normal of *)
(* two distinct centers is a unit vector to about 4 decimals, as it is to  *)
(* 16 in the program.  A division by zero,                                 *)
(* which yields Infinity/NaN in the program, is recorded by the flag       *)
(* "nonFinite" of the state record instead of a value.                     *)
(*                                                                         *)
(* A thrown TypeError (an access to a bucket the grid does not have) is    *)
(* recorded by "fault": the call stops at the throwing statement and the   *)
(* mutations made before it stay, as in the program.                       *)
(***************************************************************************)
EXTENDS Integers, Sequences, FiniteSets, TLC

VARIABLES
    minRange,            \* BallSolver._minRange / Partition._minRange
    maxRange,            \* BallSolver._maxRange
    cellSize,            \* Partition._cellSize
    gravity,             \* BallSolver._gravity
    coeffOfRestitution,  \* BallSolver._coeffOfRestitution
    positions,           \* BallSolver._positions  (sequence, ball id k is element k+1)
    velocities,          \* BallSolver._velocities
    masses,              \* BallSolver._masses
    radii,               \* BallSolver._radii
    buckets,             \* Partition._buckets     (cell <<x, y>> -> sequence of ids)
    idToBucket,          \* Partition._idToBucket  (id -> <<x, y>>)
    fault,               \* the last call threw
    nonFinite,           \* some coordinate is Infinity/NaN
    op,                  \* the last call and what it reported
    pre,                 \* the mutable state right before the last call
    lastPos,             \* Partition driver: position last registered per id
    added,               \* the positions AddBall was called with, per ball
    steps,               \* number of calls made after construction
    loop                 \* the page: the callback on the stack, the controller

vars == << minRange, maxRange, cellSize, gravity, coeffOfRestitution,
           positions, velocities, masses, radii, buckets, idToBucket,
           fault, nonFinite, op, pre, lastPos, added, steps, loop >>

config == << minRange, maxRange, cellSize, gravity, coeffOfRestitution >>

-----------------------------------------------------------------------------
(* Bounds *)

MaxBalls == 2
MaxSteps == 2
MaxIds == 2
MaxUpdates == 3

-----------------------------------------------------------------------------
(* Fixed-point arithmetic *)

Scale == 1000

\* the extra digit of overlaps and normals in _HandleCollision
Fine == 10
NormalScale == Scale * Fine

Max(a, b) == IF a >= b THEN a ELSE b
Min(a, b) == IF a <= b THEN a ELSE b
Abs(a) == IF a < 0 THEN -a ELSE a

\* a / b rounded to the nearest integer (ties away from zero), b # 0
RoundDiv(a, b) ==
    LET n == IF b < 0 THEN -a ELSE a
        d == Abs(b)
    IN  IF n >= 0 THEN (2 * n + d) \div (2 * d)
        ELSE -((2 * (-n) + d) \div (2 * d))

\* the product a * b of two fixed-point numbers
Mul(a, b) == RoundDiv(a * b, Scale)

\* the quotient a / b of two fixed-point numbers, b # 0
Div(a, b) == RoundDiv(a * Scale, b)

\* Math.floor(a / b) for b > 0
FloorDiv(a, b) == a \div b

\* the largest r in lo .. hi with (r * step)^2 <= n, given (lo * step)^2 <= n
\* and (hi * step)^2 < 2^31
SqrtSearch(n, lo, hi, step) ==
    CHOOSE r \in lo .. hi :
        /\ (r * step) * (r * step) <= n
        /\ r = hi \/ ((r + 1) * step) * ((r + 1) * step) > n

\* the integer nearest to the square root of n, 0 <= n < 2^31: first its
\* multiple of 216, then the units (46340 is the largest root of 32 bits)
ISqrt(n) ==
    LET h == SqrtSearch(n, 0, 214, 216)
        f == SqrtSearch(n, h * 216, Min(h * 216 + 215, 46340), 1)
    IN  IF n - f * f > f THEN f + 1 ELSE f

Vec(x, y) == [x |-> x, y |-> y]
VAdd(a, b) == Vec(a.x + b.x, a.y + b.y)
VSub(a, b) == Vec(a.x - b.x, a.y - b.y)
VScale(a, k) == Vec(Mul(a.x, k), Mul(a.y, k))          \* Vector2.multiplyScalar
Dot(a, b) == Mul(a.x, b.x) + Mul(a.y, b.y)             \* Vector2.dot
Length(a) == ISqrt(a.x * a.x + a.y * a.y)              \* Vector2.length
\* Vector2.length as the pair << r, k >> that stands for r / (k * Scale):
\* k is the largest power of 10 for which the square (k * length)^2 fits in
\* 32 bits, so r has 4 to 5 significant digits
PreciseLength(a) ==
    LET q == a.x * a.x + a.y * a.y
        k == IF q < 2147 THEN 1000
             ELSE IF q < 214748 THEN 100
             ELSE IF q < 21474836 THEN 10
             ELSE 1
    IN  << ISqrt(k * k * q), k >>
\* v.dot(n) and n.multiplyScalar(k) for a normal n in 1/NormalScale
DotNormal(v, n) == RoundDiv(v.x * n.x + v.y * n.y, NormalScale)
ScaleNormal(n, k) == Vec(RoundDiv(n.x * k, NormalScale), RoundDiv(n.y * k, NormalScale))
DistanceToSquared(a, b) ==                             \* Vector2.distanceToSquared, in 1/Scale^2
    (a.x - b.x) * (a.x - b.x) + (a.y - b.y) * (a.y - b.y)

-----------------------------------------------------------------------------
(* Partition (src/src/partition.ts) *)

\* the smallest integer n with n >= a / b: the number of passes of
\* "for (let x = 0; x < xCount; x++)" with xCount = a / b
CeilDiv(a, b) == -((-a) \div b)

XCount(lo, hi, cell) == CeilDiv(hi.x - lo.x, cell)
YCount(lo, hi, cell) == CeilDiv(hi.y - lo.y, cell)

\* Partition constructor: the grid of empty buckets
NewBuckets(lo, hi, cell) ==
    [c \in (0 .. XCount(lo, hi, cell) - 1) \X (0 .. YCount(lo, hi, cell) - 1) |-> << >>]

_PositionToBucketIndices(position) ==
    << FloorDiv(position.x - minRange.x, cellSize),
       FloorDiv(position.y - minRange.y, cellSize) >>

\* Array.prototype.indexOf, 0-based, -1 when absent
IndexOf(seq, id) ==
    IF \E k \in 1 .. Len(seq) : seq[k] = id
    THEN (CHOOSE k \in 1 .. Len(seq) :
              seq[k] = id /\ \A j \in 1 .. k - 1 : seq[j] # id) - 1
    ELSE -1

\* Splice without the removal
SpliceNothing(seq, index) == seq

\* Array.prototype.splice(index, 1): a negative index counts from the end,
\* so splice(-1, 1) removes the last element
Splice(seq, index) ==
    LET start == IF index < 0 THEN Max(Len(seq) + index, 0) ELSE Min(index, Len(seq))
    IN  IF start >= Len(seq) THEN seq
        ELSE SubSeq(seq, 1, start) \o SubSeq(seq, start + 2, Len(seq))

\* The comparison "oldBucketIndices != bucketIndices" of Update compares two
\* array objects by identity; bucketIndices is a fresh array, so it is true
\* whatever the indices are.
IndicesDiffer(oldBucketIndices, bucketIndices) == TRUE

\* Partition.Update on the partition record P = [buckets, idToBucket, fault]
PartitionUpdate(P, id, position) ==
    IF P.fault THEN P
    ELSE
    LET bucketIndices == _PositionToBucketIndices(position)
        has == id \in DOMAIN P.idToBucket
        moved == has /\ IndicesDiffer(P.idToBucket[id], bucketIndices)
        removed ==
            IF moved
            THEN LET old == P.idToBucket[id]
                 IN  [P.buckets EXCEPT ![old] = Splice(@, IndexOf(@, id))]
            ELSE P.buckets
        addToBucket == moved \/ ~has
    IN  IF addToBucket /\ bucketIndices \notin DOMAIN P.buckets
        THEN \* this._buckets[x][y] is undefined: TypeError before the push
             [P EXCEPT !.buckets = removed, !.fault = TRUE]
        ELSE [P EXCEPT
                !.buckets = IF addToBucket
                            THEN [removed EXCEPT ![bucketIndices] = Append(@, id)]
                            ELSE removed,
                !.idToBucket = [k \in DOMAIN P.idToBucket \cup {id} |->
                                   IF k = id THEN bucketIndices ELSE P.idToBucket[k]]]

RECURSIVE ConcatColumn(_, _, _, _)
ConcatColumn(bk, x, y, yMax) ==
    IF y > yMax THEN << >> ELSE bk[<<x, y>>] \o ConcatColumn(bk, x, y + 1, yMax)

RECURSIVE ConcatRow(_, _, _, _)
ConcatRow(bk, x, xMax, y) ==
    IF x > xMax THEN << >> ELSE bk[<<x, y>>] \o ConcatRow(bk, x + 1, xMax, y)

\* ConcatBlock with the loops exchanged: y outermost, x innermost
RECURSIVE ConcatBlockYOutermost(_, _, _, _, _)
ConcatBlockYOutermost(bk, x, xMax, yMin, yMax) ==
    IF yMin > yMax THEN << >>
    ELSE ConcatRow(bk, x, xMax, yMin) \o ConcatBlockYOutermost(bk, x, xMax, yMin + 1, yMax)

RECURSIVE ConcatBlock(_, _, _, _, _)
ConcatBlock(bk, x, xMax, yMin, yMax) ==
    IF x > xMax THEN << >>
    ELSE ConcatColumn(bk, x, yMin, yMax) \o ConcatBlock(bk, x + 1, xMax, yMin, yMax)

\* number of columns / rows of the grid: _buckets.length, _buckets[0].length
GridColumns(bk) == Cardinality({c[1] : c \in DOMAIN bk})
GridRows(bk) == Cardinality({c[2] : c \in DOMAIN bk})

\* GetNearby that reads the position's own bucket only
GetNearbyOwnBucket(bk, position) ==
    LET b == _PositionToBucketIndices(position)
    IN  IF b \in DOMAIN bk THEN bk[b] ELSE << >>

\* Partition.GetNearby
GetNearby(bk, position) ==
    LET b == _PositionToBucketIndices(position)
        bucketMinX == Max(b[1] - 1, 0)
        bucketMaxX == Min(b[1] + 1, GridColumns(bk) - 1)
        bucketMinY == Max(b[2] - 1, 0)
        bucketMaxY == Min(b[2] + 1, GridRows(bk) - 1)
    IN  ConcatBlock(bk, bucketMinX, bucketMaxX, bucketMinY, bucketMaxY)

-----------------------------------------------------------------------------
(* BallSolver (src/src/ballSolver.ts, lines 286-621)                       *)
(*                                                                         *)
(* The operators below work on a record s of the mutable state:            *)
(*   positions, velocities, buckets, idToBucket, fault, nonFinite,         *)
(*   collisionsFound, iterations, found, passFault                         *)
(* where collisionsFound and iterations are the locals of _Collisions,     *)
(* found lists, per sweep, whether the sweep yielded a pair, and passFault *)
(* tells whether the wall and collision passes of Solve threw.             *)

GetBallCount(s) == Len(s.positions)

\* WallAxis that reflects the velocity but leaves the coordinate where it is
WallAxisNoClamp(p, v, radius, lo, hi) ==
    LET v1 == IF p > hi - radius /\ v > 0 THEN Mul(v, -coeffOfRestitution) ELSE v
        v2 == IF p < lo + radius /\ v1 < 0 THEN Mul(v1, -coeffOfRestitution) ELSE v1
    IN  << p, v2 >>

\* WallAxis that reflects the velocity of every clamped coordinate, whatever
\* its direction
WallAxisAlwaysReflect(p, v, radius, lo, hi) ==
    LET v1 == IF p > hi - radius THEN Mul(v, -coeffOfRestitution) ELSE v
        p1 == IF p > hi - radius THEN hi - radius ELSE p
        v2 == IF p1 < lo + radius THEN Mul(v1, -coeffOfRestitution) ELSE v1
        p2 == IF p1 < lo + radius THEN lo + radius ELSE p1
    IN  << p2, v2 >>

\* one axis of _HandleWallCollisions: the max wall first, the min wall second
WallAxis(p, v, radius, lo, hi) ==
    LET v1 == IF p > hi - radius /\ v > 0 THEN Mul(v, -coeffOfRestitution) ELSE v
        p1 == IF p > hi - radius THEN hi - radius ELSE p
        v2 == IF p1 < lo + radius /\ v1 < 0 THEN Mul(v1, -coeffOfRestitution) ELSE v1
        p2 == IF p1 < lo + radius THEN lo + radius ELSE p1
    IN  << p2, v2 >>

_HandleWallCollisions(s, index) ==
    LET position == s.positions[index + 1]
        velocity == s.velocities[index + 1]
        radius == radii[index + 1]
        ax == WallAxis(position.x, velocity.x, radius, minRange.x, maxRange.x)
        ay == WallAxis(position.y, velocity.y, radius, minRange.y, maxRange.y)
    IN  IF s.fault THEN s
        ELSE [s EXCEPT !.positions[index + 1] = Vec(ax[1], ay[1]),
                       !.velocities[index + 1] = Vec(ax[2], ay[2])]

\* _IsColliding that forgets the radius of the second ball
IsCollidingOneRadius(s, indexA, indexB) ==
    DistanceToSquared(s.positions[indexA + 1], s.positions[indexB + 1])
        < radii[indexA + 1] * radii[indexA + 1]

\* _IsColliding that compares the squared distance with the sum of the
\* radii, not its square
IsCollidingUnsquared(s, indexA, indexB) ==
    DistanceToSquared(s.positions[indexA + 1], s.positions[indexB + 1])
        < (radii[indexA + 1] + radii[indexB + 1]) * Scale

_IsColliding(s, indexA, indexB) ==
    DistanceToSquared(s.positions[indexA + 1], s.positions[indexB + 1])
        < (radii[indexA + 1] + radii[indexB + 1]) * (radii[indexA + 1] + radii[indexB + 1])

\* _Solve1DCollision with the mass of the wrong ball in both numerators
Solve1DCollisionOwnMass(restitution, massA, massB, velocityA, velocityB) ==
    LET totalMass == massA + massB
        totalMomentum == Mul(massA, velocityA) + Mul(massB, velocityB)
    IN  << Div(Mul(Mul(restitution, massA), velocityB - velocityA) + totalMomentum,
               totalMass),
           Div(Mul(Mul(restitution, massB), velocityA - velocityB) + totalMomentum,
               totalMass) >>

\* _Solve1DCollision that ignores the restitution (always elastic)
Solve1DCollisionElastic(restitution, massA, massB, velocityA, velocityB) ==
    LET totalMass == massA + massB
        totalMomentum == Mul(massA, velocityA) + Mul(massB, velocityB)
    IN  << Div(Mul(massB, velocityB - velocityA) + totalMomentum, totalMass),
           Div(Mul(massA, velocityA - velocityB) + totalMomentum, totalMass) >>

_Solve1DCollision(restitution, massA, massB, velocityA, velocityB) ==
    LET totalMass == massA + massB
        totalMomentum == Mul(massA, velocityA) + Mul(massB, velocityB)
    IN  << Div(Mul(Mul(restitution, massB), velocityB - velocityA) + totalMomentum,
               totalMass),
           Div(Mul(Mul(restitution, massA), velocityA - velocityB) + totalMomentum,
               totalMass) >>

\* the partition fields of s after Partition.Update(id, position)
UpdatePartition(s, id, position) ==
    LET P == PartitionUpdate(
                 [buckets |-> s.buckets, idToBucket |-> s.idToBucket, fault |-> s.fault],
                 id, position)
    IN  [s EXCEPT !.buckets = P.buckets, !.idToBucket = P.idToBucket, !.fault = P.fault]

\* lines 446-456: the vector from A to B, its length dist / (unit * Scale),
\* and the edge case of coinciding centers
CollisionDelta(positionA, positionB, radiusA, radiusB) ==
    LET delta == VSub(positionB, positionA)
        length == PreciseLength(delta)
    IN  IF length[1] = 0
        THEN [delta |-> Vec(radiusA + radiusB, 0),
              dist |-> radiusA + radiusB - Scale, unit |-> 1]
        ELSE [delta |-> delta, dist |-> length[1], unit |-> length[2]]

\* lines 458-459: collisionNormal = delta * (1.0 / dist), dist # 0, in 1/NormalScale
CollisionNormal(d) ==
    Vec(RoundDiv(d.delta.x * d.unit * NormalScale, d.dist),
        RoundDiv(d.delta.y * d.unit * NormalScale, d.dist))

\* line 467: radiusA + radiusB - dist, in 1/NormalScale
Overlap(d, radiusA, radiusB) ==
    RoundDiv(((radiusA + radiusB) * d.unit - d.dist) * Fine, d.unit)

\* PositionOffsets that moves each ball by half its share
PositionOffsetsHalf(collisionNormal, d, massA, massB, radiusA, radiusB) ==
    LET minTransDelta == ScaleNormal(collisionNormal, Overlap(d, radiusA, radiusB) \div 2)
        massSum == massA + massB
    IN  [offsetA |-> Vec(RoundDiv(minTransDelta.x * Div(-massA, massSum), NormalScale),
                         RoundDiv(minTransDelta.y * Div(-massA, massSum), NormalScale)),
         offsetB |-> Vec(RoundDiv(minTransDelta.x * Div(massB, massSum), NormalScale),
                         RoundDiv(minTransDelta.y * Div(massB, massSum), NormalScale))]

\* lines 461-477: the two position offsets
PositionOffsets(collisionNormal, d, massA, massB, radiusA, radiusB) ==
    LET minTransDelta == ScaleNormal(collisionNormal, Overlap(d, radiusA, radiusB))
        massSum == massA + massB
    IN  [offsetA |-> Vec(RoundDiv(minTransDelta.x * Div(-massA, massSum), NormalScale),
                         RoundDiv(minTransDelta.y * Div(-massA, massSum), NormalScale)),
         offsetB |-> Vec(RoundDiv(minTransDelta.x * Div(massB, massSum), NormalScale),
                         RoundDiv(minTransDelta.y * Div(massB, massSum), NormalScale))]

\* VelocityResponse without the test of lines 502-504: separating balls
\* get the response too
VelocityResponseAlways(collisionNormal, velocityA, velocityB, massA, massB) ==
    LET speedAlongCollisionNormalA == DotNormal(velocityA, collisionNormal)
        speedAlongCollisionNormalB == DotNormal(velocityB, collisionNormal)
        new == _Solve1DCollision(coeffOfRestitution, massA, massB,
                                 speedAlongCollisionNormalA, speedAlongCollisionNormalB)
    IN  << VAdd(velocityA,
                ScaleNormal(collisionNormal, new[1] - speedAlongCollisionNormalA)),
           VAdd(velocityB,
                ScaleNormal(collisionNormal, new[2] - speedAlongCollisionNormalB)) >>

\* lines 492-520: the velocities after the response along the normal
VelocityResponse(collisionNormal, velocityA, velocityB, massA, massB) ==
    LET speedAlongCollisionNormalA == DotNormal(velocityA, collisionNormal)
        speedAlongCollisionNormalB == DotNormal(velocityB, collisionNormal)
        approachSpeed == speedAlongCollisionNormalA - speedAlongCollisionNormalB
        new == _Solve1DCollision(coeffOfRestitution, massA, massB,
                                 speedAlongCollisionNormalA, speedAlongCollisionNormalB)
    IN  IF approachSpeed < 0
        THEN << velocityA, velocityB >>
        ELSE << VAdd(velocityA,
                     ScaleNormal(collisionNormal, new[1] - speedAlongCollisionNormalA)),
                VAdd(velocityB,
                     ScaleNormal(collisionNormal, new[2] - speedAlongCollisionNormalB)) >>

\* lines 479-480: positionA.add(offsetA); positionB.add(offsetB)
AddOffsets(s, indexA, indexB, off) ==
    [s EXCEPT !.positions[indexA + 1] = VAdd(@, off.offsetA),
              !.positions[indexB + 1] = VAdd(@, off.offsetB)]

\* this._partition.Update(index, position of the ball)
Register(s, index) == UpdatePartition(s, index, s.positions[index + 1])

\* lines 492-520 on the state; an Update that threw ended the call before
ApplyVelocityResponse(s, indexA, indexB, collisionNormal) ==
    LET vel == VelocityResponse(collisionNormal, s.velocities[indexA + 1],
                                s.velocities[indexB + 1],
                                masses[indexA + 1], masses[indexB + 1])
    IN  IF s.fault THEN s
        ELSE [s EXCEPT !.velocities[indexA + 1] = vel[1],
                       !.velocities[indexB + 1] = vel[2]]

\* lines 461-520, for a finite collision normal
ResolveAlongNormal(s, indexA, indexB, d, collisionNormal) ==
    ApplyVelocityResponse(
        Register(
            Register(
                _HandleWallCollisions(
                    _HandleWallCollisions(
                        AddOffsets(s, indexA, indexB,
                                   PositionOffsets(collisionNormal, d,
                                                   masses[indexA + 1], masses[indexB + 1],
                                                   radii[indexA + 1], radii[indexB + 1])),
                        indexA),
                    indexB),
                indexA),
            indexB),
        indexA, indexB, collisionNormal)

\* lines 458-520, for the delta and dist of lines 446-456
ResolveDelta(s, indexA, indexB, d) ==
    IF d.dist = 0
    THEN \* 1.0 / 0: the normal, the offsets and both positions are
         \* Infinity/NaN, and Update throws on the NaN bucket index
         [s EXCEPT !.nonFinite = TRUE, !.fault = TRUE]
    ELSE ResolveAlongNormal(s, indexA, indexB, d, CollisionNormal(d))

_HandleCollision(s, indexA, indexB) ==
    IF s.fault THEN s
    ELSE ResolveDelta(s, indexA, indexB,
                      CollisionDelta(s.positions[indexA + 1], s.positions[indexB + 1],
                                     radii[indexA + 1], radii[indexB + 1]))

\* the body of the for-of loop of Solve for one yielded pair (lines 410-414)
ResolvePair(s, indexA, indexB) ==
    _HandleWallCollisions(
        _HandleWallCollisions(_HandleCollision(s, indexA, indexB), indexA), indexB)

\* the inner loop of _Collisions over the candidates of ball indexA
RECURSIVE VisitNearby(_, _, _, _)
VisitNearby(s, indexA, nearby, k) ==
    IF s.fault \/ k > Len(nearby) THEN s
    ELSE LET indexB == nearby[k]
         IN  IF indexA # indexB /\ _IsColliding(s, indexA, indexB)
             THEN VisitNearby(ResolvePair([s EXCEPT !.collisionsFound = TRUE],
                                          indexA, indexB),
                              indexA, nearby, k + 1)
             ELSE VisitNearby(s, indexA, nearby, k + 1)

\* one sweep: the loop over indexA
RECURSIVE SweepBalls(_, _)
SweepBalls(s, indexA) ==
    IF s.fault \/ indexA >= GetBallCount(s) THEN s
    ELSE SweepBalls(
             VisitNearby(s, indexA, GetNearby(s.buckets, s.positions[indexA + 1]), 1),
             indexA + 1)

\* the value of collisionsFound at the end of a sweep, kept per sweep
RecordSweep(s) == [s EXCEPT !.found = Append(@, s.collisionsFound)]

\* _Collisions whose cap is tested with <=: one sweep too many
RECURSIVE CollisionsOneMore(_, _)
CollisionsOneMore(s, maxTestsPerBall) ==
    IF ~s.fault /\ (s.iterations = 0 \/ s.collisionsFound)
                /\ s.iterations <= maxTestsPerBall
    THEN CollisionsOneMore(RecordSweep(SweepBalls([s EXCEPT !.collisionsFound = FALSE,
                                                            !.iterations = @ + 1], 0)),
                           maxTestsPerBall)
    ELSE s

\* the while loop of _Collisions, with the loop body of Solve applied to
\* every yielded pair
RECURSIVE _Collisions(_, _)
_Collisions(s, maxTestsPerBall) ==
    IF ~s.fault /\ (s.iterations = 0 \/ s.collisionsFound)
                /\ s.iterations < maxTestsPerBall
    THEN _Collisions(RecordSweep(SweepBalls([s EXCEPT !.collisionsFound = FALSE,
                                                      !.iterations = @ + 1], 0)),
                     maxTestsPerBall)
    ELSE s

RECURSIVE WallPass(_, _)
WallPass(s, index) ==
    IF index >= GetBallCount(s) THEN s
    ELSE WallPass(_HandleWallCollisions(s, index), index + 1)

\* lines 417-421
AddGravity(s, timestep) ==
    IF s.fault THEN s
    ELSE [s EXCEPT !.velocities =
             [k \in DOMAIN @ |-> VAdd(@[k], Vec(0, Mul(timestep, gravity)))]]

\* lines 423-433
RECURSIVE Integrate(_, _, _)
Integrate(s, timestep, index) ==
    IF s.fault \/ index >= GetBallCount(s) THEN s
    ELSE Integrate(
             Register([s EXCEPT !.positions[index + 1] =
                           VAdd(@, VScale(s.velocities[index + 1], timestep))],
                      index),
             timestep, index + 1)

MaxTestsPerBall == 6

\* the state at the end of the collision pass of Solve
RecordPass(s) == [s EXCEPT !.passFault = s.fault]

AfterCollisions(s) ==
    RecordPass(_Collisions(WallPass([s EXCEPT !.fault = FALSE, !.collisionsFound = FALSE,
                                              !.iterations = 0, !.found = << >>], 0),
                           MaxTestsPerBall))

\* Solve that integrates the positions before it adds the gravity
SolveStateIntegrateFirst(s, timestep) ==
    IF s.nonFinite
    THEN [s EXCEPT !.fault = TRUE, !.passFault = TRUE, !.collisionsFound = FALSE,
                   !.iterations = 0, !.found = << >>]
    ELSE AddGravity(Integrate(AfterCollisions(s), timestep, 0), timestep)

\* BallSolver.Solve
SolveState(s, timestep) ==
    IF s.nonFinite
    THEN \* a NaN coordinate stays NaN and the first Update of it throws
         [s EXCEPT !.fault = TRUE, !.passFault = TRUE, !.collisionsFound = FALSE,
                   !.iterations = 0, !.found = << >>]
    ELSE Integrate(AddGravity(AfterCollisions(s), timestep), timestep, 0)

-----------------------------------------------------------------------------
(* Inputs *)

\* new BallSolver(minRange, maxRange, maxRadius, gravity, coefficientOfRestitution)
Box == [minRange |-> Vec(-1000, -1000), maxRange |-> Vec(1000, 1000), maxRadius |-> 100]

Configs ==
    { [minRange |-> Box.minRange, maxRange |-> Box.maxRange, maxRadius |-> Box.maxRadius,
       gravity |-> c[1], coefficientOfRestitution |-> c[2]] :
      c \in { << 0, 1000 >>, << 0, 0 >>, << 3000, 900 >> } }

Ball(px, py, vx, vy, mass, radius) ==
    [position |-> Vec(px, py), velocity |-> Vec(vx, vy), mass |-> mass, radius |-> radius]

\* the arguments AddBall is called with
BallInputs ==
    { Ball(-150, 0, 1000, 0, 1000, 100),     \* the pair of the two-ball scenario:
      Ball(150, 0, -1000, 0, 1000, 100),     \*   0.3 apart, closing at 1.0 each
      Ball(-50, 0, 1000, 0, 1000, 100),      \* overlaps the next two, moving right
      Ball(50, 0, -1000, 0, 3000, 100),      \* heavier, moving left
      Ball(-50, 0, -1000, 300, 2000, 100),   \* same center as the third
      Ball(20, 110, -400, -700, 1000, 80),   \* oblique contact with the balls at y = 0
      Ball(950, 0, 500, 0, 3000, 100),       \* beyond the right wall band, heavy
      Ball(800, 0, 0, 0, 1000, 100),         \* next to it
      Ball(940, 0, 1500, 0, 1000, 50),       \* inside the band, moving to the wall
      Ball(980, -970, 300, -300, 1000, 50) } \* in a corner, beyond both bands

\* the impulses AddVelocityToBall is called with (Controller._Drag: ten times
\* the mouse displacement)
Impulses == { Vec(6000, 0), Vec(-500, -2000) }

\* the timestep Solve is called with: 0.01
Timesteps == { 10 }

-----------------------------------------------------------------------------
(* The state machine *)

Cur ==
    [positions |-> positions, velocities |-> velocities,
     buckets |-> buckets, idToBucket |-> idToBucket,
     fault |-> fault, nonFinite |-> nonFinite,
     collisionsFound |-> FALSE, iterations |-> 0, found |-> << >>,
     passFault |-> FALSE]

Snapshot ==
    [positions |-> positions, velocities |-> velocities, masses |-> masses,
     radii |-> radii, buckets |-> buckets, idToBucket |-> idToBucket,
     nonFinite |-> nonFinite]

\* the page before any script has run: no callback on the stack, no solver,
\* no controller
NoLoop ==
    [running |-> "idle", phase |-> "none", ready |-> FALSE, controllers |-> 0,
     events |-> 0, solves |-> 0, mouseDown |-> FALSE,
     mousePos |-> Vec(0, 0), prevMousePos |-> Vec(0, 0),
     pass |-> [iterations |-> 0, found |-> << >>, passFault |-> FALSE]]

Construct(c) ==
    /\ minRange = c.minRange
    /\ maxRange = c.maxRange
    /\ cellSize = c.maxRadius * 2
    /\ gravity = c.gravity
    /\ coeffOfRestitution = c.coefficientOfRestitution
    /\ positions = << >>
    /\ velocities = << >>
    /\ masses = << >>
    /\ radii = << >>
    /\ buckets = NewBuckets(c.minRange, c.maxRange, c.maxRadius * 2)
    /\ idToBucket = << >>
    /\ fault = FALSE
    /\ nonFinite = FALSE
    /\ op = [name |-> "new"]
    /\ lastPos = << >>
    /\ added = << >>
    /\ steps = 0
    /\ pre = [positions |-> << >>, velocities |-> << >>, masses |-> << >>,
              radii |-> << >>, buckets |-> NewBuckets(c.minRange, c.maxRange, c.maxRadius * 2),
              idToBucket |-> << >>, nonFinite |-> FALSE]

Init == \E c \in Configs : Construct(c) /\ loop = NoLoop

\* AddBall that reads the id after the push: the count, not the count before
AddBallIdAfterPush(position, velocity, mass, radius) ==
    LET id == Len(positions) + 1
        P == PartitionUpdate([buckets |-> buckets, idToBucket |-> idToBucket,
                              fault |-> FALSE], id, position)
    IN  /\ Len(positions) < MaxBalls
        /\ positions' = Append(positions, position)
        /\ velocities' = Append(velocities, velocity)
        /\ masses' = Append(masses, mass)
        /\ radii' = Append(radii, radius)
        /\ buckets' = P.buckets
        /\ idToBucket' = P.idToBucket
        /\ fault' = P.fault
        /\ op' = [name |-> "AddBall", id |-> id]
        /\ pre' = Snapshot
        /\ added' = Append(added, position)
        /\ UNCHANGED << config, loop, nonFinite, lastPos, steps >>

AddBall(position, velocity, mass, radius) ==
    LET id == Len(positions)
        P == PartitionUpdate([buckets |-> buckets, idToBucket |-> idToBucket,
                              fault |-> FALSE], id, position)
    IN  /\ Len(positions) < MaxBalls
        /\ positions' = Append(positions, position)
        /\ velocities' = Append(velocities, velocity)
        /\ masses' = Append(masses, mass)
        /\ radii' = Append(radii, radius)
        /\ buckets' = P.buckets
        /\ idToBucket' = P.idToBucket
        /\ fault' = P.fault
        /\ op' = [name |-> "AddBall", id |-> id]
        /\ pre' = Snapshot
        /\ added' = Append(added, position)
        /\ UNCHANGED << config, loop, nonFinite, lastPos, steps >>

\* AddVelocityToBall that adds the impulse to every ball
AddVelocityToEveryBall(index, velocity) ==
    /\ steps < MaxSteps
    /\ index < Len(positions)
    /\ velocities' = [k \in DOMAIN velocities |-> VAdd(velocities[k], velocity)]
    /\ fault' = FALSE
    /\ op' = [name |-> "AddVelocityToBall", index |-> index, velocity |-> velocity]
    /\ pre' = Snapshot
    /\ steps' = steps + 1
    /\ UNCHANGED << config, loop, positions, masses, radii, buckets, idToBucket,
                    nonFinite, lastPos, added >>

AddVelocityToBall(index, velocity) ==
    /\ steps < MaxSteps
    /\ index < Len(positions)
    /\ velocities' = [velocities EXCEPT ![index + 1] = VAdd(@, velocity)]
    /\ fault' = FALSE
    /\ op' = [name |-> "AddVelocityToBall", index |-> index, velocity |-> velocity]
    /\ pre' = Snapshot
    /\ steps' = steps + 1
    /\ UNCHANGED << config, loop, positions, masses, radii, buckets, idToBucket,
                    nonFinite, lastPos, added >>

Solve(timestep) ==
    /\ steps < MaxSteps
    /\ \E s \in { SolveState(Cur, timestep) } :
        /\ steps' = steps + 1
        /\ positions' = s.positions
        /\ velocities' = s.velocities
        /\ buckets' = s.buckets
        /\ idToBucket' = s.idToBucket
        /\ fault' = s.fault
        /\ nonFinite' = s.nonFinite
        /\ op' = [name |-> "Solve", timestep |-> timestep,
                  iterations |-> s.iterations, found |-> s.found,
                  passFault |-> s.passFault]
        /\ pre' = Snapshot
        /\ UNCHANGED << config, loop, masses, radii, lastPos, added >>

Next ==
    \/ \E b \in BallInputs : AddBall(b.position, b.velocity, b.mass, b.radius)
    \/ \E i \in 0 .. MaxBalls - 1, v \in Impulses : AddVelocityToBall(i, v)
    \/ \E t \in Timesteps : Solve(t)

Spec == Init /\ [][Next]_vars

-----------------------------------------------------------------------------
(* The Partition on its own: any sequence of Update and GetNearby calls *)

\* new Partition(minRange, maxRange, maxDistance): 3.5 by 2.5 cells, so 4 by 3 buckets
PartitionInputs == [minRange |-> Vec(0, 0), maxRange |-> Vec(700, 500), maxDistance |-> 200]

\* positions inside [minRange, maxRange)
InsidePositions ==
    { Vec(0, 0), Vec(199, 0), Vec(200, 0), Vec(399, 250), Vec(400, 300),
      Vec(650, 100), Vec(699, 499) }

PartitionInit ==
    /\ minRange = PartitionInputs.minRange
    /\ maxRange = PartitionInputs.maxRange
    /\ cellSize = PartitionInputs.maxDistance
    /\ gravity = 0
    /\ coeffOfRestitution = 0
    /\ positions = << >>
    /\ velocities = << >>
    /\ masses = << >>
    /\ radii = << >>
    /\ buckets = NewBuckets(PartitionInputs.minRange, PartitionInputs.maxRange,
                            PartitionInputs.maxDistance)
    /\ idToBucket = << >>
    /\ fault = FALSE
    /\ nonFinite = FALSE
    /\ op = [name |-> "new"]
    /\ lastPos = << >>
    /\ added = << >>
    /\ steps = 0
    /\ loop = NoLoop
    /\ pre = [positions |-> << >>, velocities |-> << >>, masses |-> << >>,
              radii |-> << >>,
              buckets |-> NewBuckets(PartitionInputs.minRange, PartitionInputs.maxRange,
                                     PartitionInputs.maxDistance),
              idToBucket |-> << >>, nonFinite |-> FALSE]

\* partition.Update(id, position)
Update(id, position) ==
    LET P == PartitionUpdate([buckets |-> buckets, idToBucket |-> idToBucket,
                              fault |-> FALSE], id, position)
    IN  /\ steps < MaxUpdates
        /\ buckets' = P.buckets
        /\ idToBucket' = P.idToBucket
        /\ fault' = P.fault
        /\ lastPos' = IF P.fault THEN lastPos
                      ELSE [k \in DOMAIN lastPos \cup {id} |->
                               IF k = id THEN position ELSE lastPos[k]]
        /\ op' = [name |-> "Update", id |-> id, position |-> position]
        /\ pre' = Snapshot
        /\ steps' = steps + 1
        /\ UNCHANGED << config, loop, positions, velocities, masses, radii, nonFinite, added >>

\* partition.GetNearby(position); the returned list is kept in op
Nearby(position) ==
    /\ op.name # "GetNearby"
    /\ op' = [name |-> "GetNearby", position |-> position,
              nearby |-> GetNearby(buckets, position)]
    /\ pre' = Snapshot
    /\ fault' = FALSE
    /\ UNCHANGED << config, loop, positions, velocities, masses, radii, buckets, idToBucket,
                    nonFinite, lastPos, added, steps >>

PartitionNext ==
    \/ \E id \in 0 .. MaxIds - 1, position \in InsidePositions : Update(id, position)
    \/ \E position \in InsidePositions : Nearby(position)

PartitionSpec == PartitionInit /\ [][PartitionNext]_vars

-----------------------------------------------------------------------------
(* The Partition called with any position, also one that maps to a bucket  *)
(* the grid does not have                                                  *)

\* positions inside the grid and positions left of it, right of it and
\* above it: columns -1 and 4, row 3
AnyPositions ==
    { Vec(0, 0), Vec(199, 0), Vec(400, 300), Vec(-1, 0), Vec(800, 100), Vec(0, 600) }

\* one call more than MaxUpdates: a registration of two ids, a call that
\* throws and a call after it
MaxAnyUpdates == MaxUpdates + 1

\* partition.Update(id, position), the caller catching what it throws
UpdateAnywhere(id, position) ==
    LET P == PartitionUpdate([buckets |-> buckets, idToBucket |-> idToBucket,
                              fault |-> FALSE], id, position)
    IN  /\ steps < MaxAnyUpdates
        /\ buckets' = P.buckets
        /\ idToBucket' = P.idToBucket
        /\ fault' = P.fault
        /\ lastPos' = IF P.fault THEN lastPos
                      ELSE [k \in DOMAIN lastPos \cup {id} |->
                               IF k = id THEN position ELSE lastPos[k]]
        /\ op' = [name |-> "Update", id |-> id, position |-> position]
        /\ pre' = Snapshot
        /\ steps' = steps + 1
        /\ UNCHANGED << config, loop, positions, velocities, masses, radii, nonFinite, added >>

AnywhereNext ==
    \E id \in 0 .. MaxIds - 1, position \in AnyPositions : UpdateAnywhere(id, position)

AnywhereSpec == PartitionInit /\ [][AnywhereNext]_vars

-----------------------------------------------------------------------------
(* _HandleCollision on its own: one call on a pair that _IsColliding accepts *)

\* this._HandleCollision(indexA, indexB), called as _Collisions and Solve do:
\* for two different balls that overlap
HandleCollision(indexA, indexB) ==
    /\ steps < MaxSteps
    /\ indexA < Len(positions)
    /\ indexB < Len(positions)
    /\ indexA # indexB
    /\ ~fault
    /\ _IsColliding(Cur, indexA, indexB)
    /\ \E s \in { _HandleCollision(Cur, indexA, indexB) } :
        /\ steps' = steps + 1
        /\ positions' = s.positions
        /\ velocities' = s.velocities
        /\ buckets' = s.buckets
        /\ idToBucket' = s.idToBucket
        /\ fault' = s.fault
        /\ nonFinite' = s.nonFinite
        /\ op' = [name |-> "_HandleCollision", indexA |-> indexA, indexB |-> indexB]
        /\ pre' = Snapshot
        /\ UNCHANGED << config, loop, masses, radii, lastPos, added >>

\* the balls of BallInputs, one that overlaps the balls at y = 0 while it
\* moves away from those on its left, and a pair inside the band that moves
\* apart, the right ball toward the wall it is pushed beyond
HandleInputs ==
    BallInputs \cup { Ball(60, 0, 500, 0, 1000, 100),
                      Ball(850, 0, 500, 0, 1000, 100),
                      Ball(800, 0, -1000, 0, 1000, 100) }

HandleNext ==
    \/ \E b \in HandleInputs : AddBall(b.position, b.velocity, b.mass, b.radius)
    \/ \E indexA \in 0 .. MaxBalls - 1, indexB \in 0 .. MaxBalls - 1 :
           HandleCollision(indexA, indexB)

HandleSpec == Init /\ [][HandleNext]_vars

-----------------------------------------------------------------------------
(* _HandleCollision on balls of any radius: a wider box, balls that share  *)
(* their center                                                            *)

\* new BallSolver(...) with maxRadius 0.7: cells 1.4 wide, 4 by 4 buckets
DegenerateBox ==
    [minRange |-> Vec(-2800, -2800), maxRange |-> Vec(2800, 2800), maxRadius |-> 700]

DegenerateConfigs ==
    { [minRange |-> DegenerateBox.minRange, maxRange |-> DegenerateBox.maxRange,
       maxRadius |-> DegenerateBox.maxRadius,
       gravity |-> c[1], coefficientOfRestitution |-> c[2]] :
      c \in { << 0, 1000 >>, << 0, 0 >>, << 3000, 900 >> } }

\* balls that share the center (0.1, 0.2), of radii that add up to less
\* than 1, to 1 and to more than 1, and one ball that overlaps them from aside
DegenerateInputs ==
    { Ball(100, 200, 1000, 0, 1000, 100),
      Ball(100, 200, -1000, 0, 3000, 100),
      Ball(100, 200, 500, 0, 1000, 300),
      Ball(100, 200, 1000, 0, 1000, 500),
      Ball(100, 200, -1000, 300, 3000, 500),
      Ball(100, 200, 0, 0, 2000, 700),
      Ball(100, 200, -500, 0, 1000, 700),
      Ball(300, 200, -1000, 0, 1000, 300) }

DegenerateInit == \E c \in DegenerateConfigs : Construct(c) /\ loop = NoLoop

DegenerateNext ==
    \/ \E b \in DegenerateInputs : AddBall(b.position, b.velocity, b.mass, b.radius)
    \/ \E indexA \in 0 .. MaxBalls - 1, indexB \in 0 .. MaxBalls - 1 :
           HandleCollision(indexA, indexB)

DegenerateSpec == DegenerateInit /\ [][DegenerateNext]_vars

-----------------------------------------------------------------------------
(* _HandleWallCollisions on its own: one ball anywhere, one call *)

WallCoordinates == { -1100, -901, -900, 0, 900, 950, 1100 }
WallSpeeds == { -500, 0, 500 }
\* 1100 is more than half the width of the box
WallRadii == { 100, 1100 }

WallInit ==
    \E c \in Configs, x \in WallCoordinates, y \in WallCoordinates,
       vx \in WallSpeeds, vy \in WallSpeeds, r \in WallRadii :
        /\ minRange = c.minRange
        /\ maxRange = c.maxRange
        /\ cellSize = c.maxRadius * 2
        /\ gravity = c.gravity
        /\ coeffOfRestitution = c.coefficientOfRestitution
        /\ positions = << Vec(x, y) >>
        /\ velocities = << Vec(vx, vy) >>
        /\ masses = << Scale >>
        /\ radii = << r >>
        /\ buckets = NewBuckets(c.minRange, c.maxRange, c.maxRadius * 2)
        /\ idToBucket = << >>
        /\ fault = FALSE
        /\ nonFinite = FALSE
        /\ op = [name |-> "new"]
        /\ lastPos = << >>
        /\ added = << Vec(x, y) >>
        /\ steps = 0
        /\ loop = NoLoop
        /\ pre = [positions |-> << Vec(x, y) >>, velocities |-> << Vec(vx, vy) >>,
                  masses |-> << Scale >>, radii |-> << r >>,
                  buckets |-> NewBuckets(c.minRange, c.maxRange, c.maxRadius * 2),
                  idToBucket |-> << >>, nonFinite |-> FALSE]

\* this._HandleWallCollisions(index)
HandleWall(index) ==
    /\ steps < MaxSteps
    /\ index < Len(positions)
    /\ \E s \in { _HandleWallCollisions(Cur, index) } :
        /\ steps' = steps + 1
        /\ positions' = s.positions
        /\ velocities' = s.velocities
        /\ fault' = FALSE
        /\ op' = [name |-> "_HandleWallCollisions", index |-> index]
        /\ pre' = Snapshot
        /\ UNCHANGED << config, loop, masses, radii, buckets, idToBucket, nonFinite,
                        lastPos, added >>

WallNext == \E index \in 0 .. MaxBalls - 1 : HandleWall(index)

WallSpec == WallInit /\ [][WallNext]_vars

-----------------------------------------------------------------------------
(* The page (src/src/app.ts lines 1-116, src/src/controller.ts): the        *)
(* callbacks the browser runs, one at a time.  A callback is dispatched    *)
(* when no other callback is on the stack (CanDispatch).  Animate is       *)
(* modelled in steps, one per Solve phase, so that an event arriving       *)
(* during a Solve call is a state of the model; every other callback is    *)
(* one step.  loop.events counts the callbacks dispatched and steps the    *)
(* Solve calls begun.                                                      *)

MaxCallbacks == 4

\* new TimeManager(timestep_ms 10.0, timestepLimitPerUpdate 10)
TimestepLimitPerUpdate == 10

\* ResetBallSolver: gravity 3.0, coefficientOfRestitution 0.9
AppConfig ==
    [minRange |-> Box.minRange, maxRange |-> Box.maxRange, maxRadius |-> Box.maxRadius,
     gravity |-> 3000, coefficientOfRestitution |-> 900]

\* the random balls of ResetBallSolver: position inside the box, velocity
\* components within 0.3, radius in [maxRadius / 2, maxRadius], mass pi * radius^2
AppBalls ==
    { Ball(-150, 0, 300, 0, 31, 100),
      Ball(-50, 0, -300, 100, 31, 100),
      Ball(20, 110, -100, -300, 20, 80) }

\* the screen positions _PageToScreen yields for the mouse events
MousePositions == { Vec(-150, 0), Vec(150, 0), Vec(0, 900) }

\* Controller._DistanceToSegment
_DistanceToSegment(segmentStart, segmentEnd, position) ==
    LET startToEnd == VSub(segmentEnd, segmentStart)
        posRelativeToStart == VSub(position, segmentStart)
        projectedDistAlongStartToEnd == Dot(posRelativeToStart, startToEnd)
    IN  IF projectedDistAlongStartToEnd < 0
        THEN Length(VSub(position, segmentStart))
        ELSE IF Mul(projectedDistAlongStartToEnd, projectedDistAlongStartToEnd)
                    > Dot(startToEnd, startToEnd)
        THEN Length(VSub(position, segmentEnd))
        ELSE Length(VSub(VAdd(VScale(startToEnd, projectedDistAlongStartToEnd),
                              segmentStart),
                         position))

\* Controller._Drag: velToAdd = (toPosition - fromPosition) * force, force = 10
VelToAdd(fromPosition, toPosition) == VScale(VSub(toPosition, fromPosition), 10 * Scale)

\* Controller._Drag: the balls closer than 0.2 to the segment
Dragged(fromPosition, toPosition) ==
    { i \in 0 .. Len(positions) - 1 :
          _DistanceToSegment(fromPosition, toPosition, positions[i + 1]) < 200 }

\* a callback is dispatched as soon as its event arrives, also while another
\* callback is on the stack
CanDispatchAlways(l) == TRUE

\* the browser runs a callback registered with requestAnimationFrame or
\* addEventListener when no other callback is on the stack
CanDispatch(l) == l.running = "idle"

\* timestepManager.Update(Solve) calls Solve synchronously, at most
\* timestepLimitPerUpdate times per call, as many times as the time that has
\* passed holds timesteps
UpdateMayStep(l) == l.solves < TimestepLimitPerUpdate

\* BallSolver.AddBall on a solver record w
AddBallTo(w, b) ==
    LET P == PartitionUpdate([buckets |-> w.buckets, idToBucket |-> w.idToBucket,
                              fault |-> FALSE], Len(w.positions), b.position)
    IN  [positions |-> Append(w.positions, b.position),
         velocities |-> Append(w.velocities, b.velocity),
         masses |-> Append(w.masses, b.mass),
         radii |-> Append(w.radii, b.radius),
         buckets |-> P.buckets, idToBucket |-> P.idToBucket, fault |-> P.fault]

\* the loop of ResetBallSolver over the balls; a throwing AddBall ends it
RECURSIVE AddBalls(_, _, _)
AddBalls(w, balls, k) ==
    IF w.fault \/ k > Len(balls) THEN w
    ELSE AddBalls(AddBallTo(w, balls[k]), balls, k + 1)

\* ResetBallSolver, ResetView, ResetController: a new solver with its balls
\* and one more controller listening, with its own mouse state
ResetBallSolver(balls) ==
    /\ CanDispatch(loop)
    /\ loop.events < MaxCallbacks
    /\ \E w \in { AddBalls([positions |-> << >>, velocities |-> << >>, masses |-> << >>,
                            radii |-> << >>,
                            buckets |-> NewBuckets(minRange, maxRange, cellSize),
                            idToBucket |-> << >>, fault |-> FALSE], balls, 1) } :
        /\ positions' = w.positions
        /\ velocities' = w.velocities
        /\ masses' = w.masses
        /\ radii' = w.radii
        /\ buckets' = w.buckets
        /\ idToBucket' = w.idToBucket
        /\ fault' = w.fault
        /\ added' = w.positions
    /\ nonFinite' = FALSE
    /\ loop' = [loop EXCEPT !.ready = TRUE, !.controllers = @ + 1, !.events = @ + 1,
                            !.mouseDown = FALSE, !.mousePos = Vec(0, 0),
                            !.prevMousePos = Vec(0, 0)]
    /\ op' = [name |-> "ResetBallSolver", phase |-> loop.phase]
    /\ pre' = Snapshot
    /\ UNCHANGED << config, lastPos, steps >>

\* document DOMContentLoaded
OnDOMContentLoaded(balls) == ~loop.ready /\ ResetBallSolver(balls)

\* window resize
OnWindowResize(balls) == loop.ready /\ ResetBallSolver(balls)

\* Animate up to the call of timestepManager.Update
Animate ==
    /\ CanDispatch(loop)
    /\ loop.events < MaxCallbacks
    /\ loop' = [loop EXCEPT !.running = "Animate", !.solves = 0, !.events = @ + 1]
    /\ op' = [name |-> "Animate"]
    /\ UNCHANGED << config, positions, velocities, masses, radii, buckets, idToBucket,
                    fault, nonFinite, pre, lastPos, added, steps >>

\* Solve, lines 401-404, called by timestepManager.Update
SolveWalls(timestep) ==
    /\ loop.running = "Animate"
    /\ loop.phase = "none"
    /\ loop.ready
    /\ UpdateMayStep(loop)
    /\ steps < MaxSteps
    /\ ~nonFinite
    /\ \E s \in { WallPass([Cur EXCEPT !.fault = FALSE], 0) } :
        /\ positions' = s.positions
        /\ velocities' = s.velocities
    /\ fault' = FALSE
    /\ steps' = steps + 1
    /\ loop' = [loop EXCEPT !.phase = "collisions"]
    /\ op' = [name |-> "Solve.walls", timestep |-> timestep]
    /\ pre' = Snapshot
    /\ UNCHANGED << config, masses, radii, buckets, idToBucket, nonFinite, lastPos, added >>

\* Solve, lines 406-415; a throw leaves Solve and Animate
SolveCollisions ==
    /\ loop.running = "Animate"
    /\ loop.phase = "collisions"
    /\ \E s \in { RecordPass(_Collisions(Cur, MaxTestsPerBall)) } :
        /\ positions' = s.positions
        /\ velocities' = s.velocities
        /\ buckets' = s.buckets
        /\ idToBucket' = s.idToBucket
        /\ fault' = s.fault
        /\ nonFinite' = s.nonFinite
        /\ loop' = [loop EXCEPT
                       !.phase = IF s.fault THEN "none" ELSE "gravity",
                       !.running = IF s.fault THEN "idle" ELSE @,
                       !.pass = [iterations |-> s.iterations, found |-> s.found,
                                 passFault |-> s.passFault]]
        /\ op' = IF s.fault
                 THEN [name |-> "Solve", timestep |-> op.timestep,
                       iterations |-> s.iterations, found |-> s.found,
                       passFault |-> s.passFault]
                 ELSE [name |-> "Solve.collisions", timestep |-> op.timestep]
    /\ UNCHANGED << config, masses, radii, pre, lastPos, added, steps >>

\* Solve, lines 417-421
SolveGravity ==
    /\ loop.running = "Animate"
    /\ loop.phase = "gravity"
    /\ velocities' = AddGravity(Cur, op.timestep).velocities
    /\ loop' = [loop EXCEPT !.phase = "integrate"]
    /\ op' = [name |-> "Solve.gravity", timestep |-> op.timestep]
    /\ UNCHANGED << config, positions, masses, radii, buckets, idToBucket, fault,
                    nonFinite, pre, lastPos, added, steps >>

\* Solve, lines 423-433, and its return to timestepManager.Update
SolveIntegrate ==
    /\ loop.running = "Animate"
    /\ loop.phase = "integrate"
    /\ \E s \in { Integrate(Cur, op.timestep, 0) } :
        /\ positions' = s.positions
        /\ buckets' = s.buckets
        /\ idToBucket' = s.idToBucket
        /\ fault' = s.fault
        /\ loop' = [loop EXCEPT !.phase = "none", !.solves = @ + 1,
                                !.running = IF s.fault THEN "idle" ELSE @]
    /\ op' = [name |-> "Solve", timestep |-> op.timestep,
              iterations |-> loop.pass.iterations, found |-> loop.pass.found,
              passFault |-> loop.pass.passFault]
    /\ UNCHANGED << config, velocities, masses, radii, nonFinite, pre, lastPos,
                    added, steps >>

\* timestepManager.Update returns, view.Render, Animate returns
AnimateEnd ==
    /\ loop.running = "Animate"
    /\ loop.phase = "none"
    /\ loop' = [loop EXCEPT !.running = "idle"]
    /\ op' = [name |-> "Animate.end"]
    /\ UNCHANGED << config, positions, velocities, masses, radii, buckets, idToBucket,
                    fault, nonFinite, pre, lastPos, added, steps >>

\* Controller._UpdateMousePos on the loop record
_UpdateMousePos(l, pos) == [l EXCEPT !.prevMousePos = l.mousePos, !.mousePos = pos]

\* Controller.HandleMouseDown
HandleMouseDown(pos) ==
    /\ CanDispatch(loop)
    /\ loop.controllers > 0
    /\ loop.events < MaxCallbacks
    /\ loop' = [_UpdateMousePos(loop, pos) EXCEPT !.mouseDown = TRUE, !.events = @ + 1]
    /\ op' = [name |-> "HandleMouseDown"]
    /\ UNCHANGED << config, positions, velocities, masses, radii, buckets, idToBucket,
                    fault, nonFinite, pre, lastPos, added, steps >>

\* Controller.HandleMouseUp, for mouseup and mouseleave
HandleMouseUp(pos) ==
    /\ CanDispatch(loop)
    /\ loop.controllers > 0
    /\ loop.events < MaxCallbacks
    /\ loop' = [_UpdateMousePos(loop, pos) EXCEPT !.mouseDown = FALSE, !.events = @ + 1]
    /\ op' = [name |-> "HandleMouseUp"]
    /\ UNCHANGED << config, positions, velocities, masses, radii, buckets, idToBucket,
                    fault, nonFinite, pre, lastPos, added, steps >>

\* Controller.HandleMouseMove: _UpdateMousePos, then _Drag while the button
\* is down: AddVelocityToBall(i, velToAdd) for every ball near the segment
HandleMouseMove(pos) ==
    /\ CanDispatch(loop)
    /\ loop.controllers > 0
    /\ loop.events < MaxCallbacks
    /\ \E dragged \in { IF loop.mouseDown THEN Dragged(loop.mousePos, pos) ELSE { } } :
        /\ velocities' = [k \in DOMAIN velocities |->
                             IF (k - 1) \in dragged
                             THEN VAdd(velocities[k], VelToAdd(loop.mousePos, pos))
                             ELSE velocities[k]]
        /\ op' = [name |-> "HandleMouseMove", phase |-> loop.phase,
                  dragged |-> dragged, velocity |-> VelToAdd(loop.mousePos, pos)]
    /\ loop' = [_UpdateMousePos(loop, pos) EXCEPT !.events = @ + 1]
    /\ pre' = Snapshot
    /\ UNCHANGED << config, positions, masses, radii, buckets, idToBucket,
                    fault, nonFinite, lastPos, added, steps >>

\* Controller.HandleTouchStart, HandleTouchMove, HandleTouchEnd: no call of
\* the solver
HandleTouch ==
    /\ CanDispatch(loop)
    /\ loop.controllers > 0
    /\ loop.events < MaxCallbacks
    /\ loop' = [loop EXCEPT !.events = @ + 1]
    /\ op' = [name |-> "HandleTouch"]
    /\ UNCHANGED << config, positions, velocities, masses, radii, buckets, idToBucket,
                    fault, nonFinite, pre, lastPos, added, steps >>

PageInit == Construct(AppConfig) /\ loop = NoLoop

PageNext ==
    \/ \E balls \in [1 .. MaxBalls -> AppBalls] : OnDOMContentLoaded(balls)
    \/ \E balls \in [1 .. MaxBalls -> AppBalls] : OnWindowResize(balls)
    \/ Animate
    \/ \E t \in Timesteps : SolveWalls(t)
    \/ SolveCollisions
    \/ SolveGravity
    \/ SolveIntegrate
    \/ AnimateEnd
    \/ \E pos \in MousePositions : HandleMouseDown(pos)
    \/ \E pos \in MousePositions : HandleMouseUp(pos)
    \/ \E pos \in MousePositions : HandleMouseMove(pos)
    \/ HandleTouch

PageSpec == PageInit /\ [][PageNext]_vars

-----------------------------------------------------------------------------
(* The solver as ResetBallSolver builds it: maxRadius is computed from the *)
(* area of the box (app.ts 28-29), so the box is not a whole number of     *)
(* cells wide and the last column and row of the grid are narrower than a  *)
(* cell.  Solve runs in the steps of the page.                             *)

\* new BallSolver(...) with maxRadius 0.11: cells 0.22 wide, 9.09 cells per
\* axis, so 10 by 10 buckets of which the last cover 0.02 of the box
RaggedConfig ==
    [minRange |-> Vec(-1000, -1000), maxRange |-> Vec(1000, 1000), maxRadius |-> 110,
     gravity |-> 3000, coefficientOfRestitution |-> 900]

\* balls of ResetBallSolver, positions anywhere in the box: two in the last
\* column and the last row, one in the corner, an overlapping pair in the
\* middle
RaggedBalls ==
    { Ball(990, 759, 0, 0, 38, 110),
      Ball(759, 990, 0, 0, 38, 110),
      Ball(995, 990, 100, -200, 38, 110),
      Ball(0, 0, 300, 0, 10, 55),
      Ball(100, 0, -300, 0, 38, 110) }

RaggedInit == Construct(RaggedConfig) /\ loop = NoLoop

RaggedNext ==
    \/ \E balls \in [1 .. MaxBalls -> RaggedBalls] : OnDOMContentLoaded(balls)
    \/ \E balls \in [1 .. MaxBalls -> RaggedBalls] : OnWindowResize(balls)
    \/ Animate
    \/ \E t \in Timesteps : SolveWalls(t)
    \/ SolveCollisions
    \/ SolveGravity
    \/ SolveIntegrate
    \/ AnimateEnd

RaggedSpec == RaggedInit /\ [][RaggedNext]_vars

-----------------------------------------------------------------------------
(* The controllers (src/src/controller.ts) and the events of the app       *)
(* element: every ResetController (app.ts 70-74) makes a controller that   *)
(* adds its listeners to the element (controller.ts 169-187) and keeps the *)
(* solver it was made with (line 32).  No listener is ever removed, so an  *)
(* event of the element runs the handler of every controller made so far, *)
(* in the order they were made.  Here loop holds                           *)
(*   controllers  the controllers made, each with its mouse state and the  *)
(*                number of the solver it holds                            *)
(*   replaced     positions and velocities of the solvers that a resize    *)
(*                has replaced (the variables hold the current solver)     *)
(*   held, lastMouse  the event stream: whether the last of mousedown,     *)
(*                mouseup and mouseleave was a mousedown, and the position *)
(*                of the last mouse event                                  *)

\* the page before DOMContentLoaded
NoControllers ==
    [ready |-> FALSE, events |-> 0, controllers |-> << >>, replaced |-> << >>,
     held |-> FALSE, lastMouse |-> Vec(0, 0)]

\* new Controller(window, element, ballSolver): lines 23-35
NewController(solver) ==
    [mouseDown |-> FALSE, mousePos |-> Vec(0, 0), prevMousePos |-> Vec(0, 0),
     solver |-> solver]

\* the number of the solver the variables hold
CurrentSolver(l) == Len(l.replaced) + 1

\* positions and velocities of solver number g
SolverNumber(l, g) ==
    IF g = CurrentSolver(l)
    THEN [positions |-> positions, velocities |-> velocities]
    ELSE l.replaced[g]

\* HandleMouseUp that leaves _mouseDown as it is
ControllerMouseUpKeepsDown(c, pos) == _UpdateMousePos(c, pos)

\* Controller.HandleMouseUp on the controller record c
ControllerMouseUp(c, pos) == [_UpdateMousePos(c, pos) EXCEPT !.mouseDown = FALSE]

\* Controller.HandleMouseDown
ControllerMouseDown(c, pos) == [_UpdateMousePos(c, pos) EXCEPT !.mouseDown = TRUE]

\* Controller.HandleMouseClick, and the first statement of HandleMouseMove
ControllerMouseAt(c, pos) == _UpdateMousePos(c, pos)

\* Controller._Drag: the balls of the positions ps closer than 0.2 to the segment
DraggedOf(ps, fromPosition, toPosition) ==
    { i \in 0 .. Len(ps) - 1 :
          _DistanceToSegment(fromPosition, toPosition, ps[i + 1]) < 200 }

\* the balls controller c, after _UpdateMousePos, drags in HandleMouseMove
DraggedBy(l, c) ==
    IF c.mouseDown
    THEN DraggedOf(SolverNumber(l, c.solver).positions, c.prevMousePos, c.mousePos)
    ELSE { }

\* the velocities vs after AddVelocityToBall(i, velocity) for every i in dragged
AfterDrag(vs, dragged, velocity) ==
    [k \in DOMAIN vs |-> IF (k - 1) \in dragged THEN VAdd(vs[k], velocity) ELSE vs[k]]

\* the velocities of solver number g after the mousemove handlers of the
\* controllers cs (already past _UpdateMousePos) have run
AfterMouseMove(l, cs, g) ==
    IF \E k \in DOMAIN cs : cs[k].solver = g
    THEN LET c == cs[CHOOSE k \in DOMAIN cs : cs[k].solver = g]
         IN  AfterDrag(SolverNumber(l, g).velocities, DraggedBy(l, c),
                       VelToAdd(c.prevMousePos, c.mousePos))
    ELSE SolverNumber(l, g).velocities

\* the AddVelocityToBall calls the mousemove handlers of the controllers cs make
CallsOf(l, cs) ==
    UNION { { [controller |-> k, solver |-> cs[k].solver, index |-> i,
               velocity |-> VelToAdd(cs[k].prevMousePos, cs[k].mousePos),
               from |-> cs[k].prevMousePos, to |-> cs[k].mousePos] :
              i \in DraggedBy(l, cs[k]) } : k \in DOMAIN cs }

\* what an event leaves in op: its name, the controllers whose handler ran,
\* the AddVelocityToBall calls made, and the event stream and the replaced
\* solvers before the event
Dispatched(name, pos, calls) ==
    [name |-> name, position |-> pos, reacted |-> DOMAIN loop.controllers,
     calls |-> calls, held |-> loop.held, lastMouse |-> loop.lastMouse,
     replaced |-> loop.replaced, solver |-> CurrentSolver(loop)]

\* ResetBallSolver, ResetView, ResetController with the solver w built by
\* AddBalls: the solver of the variables is replaced, one more controller
MakeSolverAndController(w, replaced) ==
    /\ positions' = w.positions
    /\ velocities' = w.velocities
    /\ masses' = w.masses
    /\ radii' = w.radii
    /\ buckets' = w.buckets
    /\ idToBucket' = w.idToBucket
    /\ fault' = w.fault
    /\ added' = w.positions
    /\ nonFinite' = FALSE
    /\ loop' = [loop EXCEPT !.ready = TRUE, !.events = @ + 1,
                            !.replaced = replaced,
                            !.controllers = Append(@, NewController(Len(replaced) + 1))]
    /\ pre' = Snapshot
    /\ UNCHANGED << config, lastPos, steps >>

\* the solver ResetBallSolver builds
BuiltSolver(balls) ==
    AddBalls([positions |-> << >>, velocities |-> << >>, masses |-> << >>,
              radii |-> << >>, buckets |-> NewBuckets(minRange, maxRange, cellSize),
              idToBucket |-> << >>, fault |-> FALSE], balls, 1)

\* document DOMContentLoaded: OnDOMContentLoaded
DispatchDOMContentLoaded(balls) ==
    /\ ~loop.ready
    /\ loop.events < MaxCallbacks
    /\ MakeSolverAndController(BuiltSolver(balls), << >>)
    /\ op' = Dispatched("DOMContentLoaded", Vec(0, 0), { })

\* window resize: OnWindowResize
DispatchResize(balls) ==
    /\ loop.ready
    /\ loop.events < MaxCallbacks
    /\ MakeSolverAndController(
           BuiltSolver(balls),
           Append(loop.replaced, [positions |-> positions, velocities |-> velocities]))
    /\ op' = Dispatched("resize", Vec(0, 0), { })

\* an event of the element whose handlers call no solver: the controllers
\* become cs
DispatchQuiet(name, pos, cs, held) ==
    /\ loop.ready
    /\ loop.events < MaxCallbacks
    /\ loop' = [loop EXCEPT !.controllers = cs, !.events = @ + 1,
                            !.held = held,
                            !.lastMouse = IF name \in { "touchstart", "touchmove",
                                                       "touchend", "touchleave" }
                                          THEN @ ELSE pos]
    /\ op' = Dispatched(name, pos, { })
    /\ pre' = Snapshot
    /\ UNCHANGED << config, positions, velocities, masses, radii, buckets, idToBucket,
                    fault, nonFinite, lastPos, added, steps >>

\* mousedown on the element
DispatchMouseDown(pos) ==
    DispatchQuiet("mousedown", pos,
                  [k \in DOMAIN loop.controllers |->
                       ControllerMouseDown(loop.controllers[k], pos)],
                  TRUE)

\* mouseup or mouseleave on the element: both run HandleMouseUp
DispatchMouseUp(name, pos) ==
    DispatchQuiet(name, pos,
                  [k \in DOMAIN loop.controllers |->
                       ControllerMouseUp(loop.controllers[k], pos)],
                  FALSE)

\* click on the element
DispatchClick(pos) ==
    DispatchQuiet("click", pos,
                  [k \in DOMAIN loop.controllers |->
                       ControllerMouseAt(loop.controllers[k], pos)],
                  loop.held)

\* touchstart, touchmove, touchend, touchleave: the handlers read and write
\* _identifierToTouchPos only
DispatchTouch(name) == DispatchQuiet(name, Vec(0, 0), loop.controllers, loop.held)

\* mousemove on the element, the controllers past _UpdateMousePos being cs
MouseMoved(pos, cs) ==
    /\ loop.ready
    /\ loop.events < MaxCallbacks
    /\ velocities' = AfterMouseMove(loop, cs, CurrentSolver(loop))
    /\ loop' = [loop EXCEPT
                   !.controllers = cs, !.events = @ + 1, !.lastMouse = pos,
                   !.replaced = [g \in DOMAIN loop.replaced |->
                                    [loop.replaced[g] EXCEPT
                                        !.velocities = AfterMouseMove(loop, cs, g)]]]
    /\ op' = Dispatched("mousemove", pos, CallsOf(loop, cs))
    /\ pre' = Snapshot
    /\ UNCHANGED << config, positions, masses, radii, buckets, idToBucket,
                    fault, nonFinite, lastPos, added, steps >>

\* mousemove on the element: HandleMouseMove of every controller
DispatchMouseMove(pos) ==
    MouseMoved(pos, [k \in DOMAIN loop.controllers |->
                        ControllerMouseAt(loop.controllers[k], pos)])

\* the balls of ResetBallSolver: one under the mouse positions, the others
\* away from them, or the other way round
ControllerBallLists ==
    { [k \in 1 .. MaxBalls |-> IF k = 1 THEN b[1] ELSE b[2]] :
      b \in { << Ball(-150, 0, 300, 0, 31, 100), Ball(600, -600, -100, -300, 20, 80) >>,
              << Ball(600, -600, -100, -300, 20, 80), Ball(-50, 0, -300, 100, 31, 100) >> } }

ControllerInit == Construct(AppConfig) /\ loop = NoControllers

ControllerNext ==
    \/ \E balls \in ControllerBallLists : DispatchDOMContentLoaded(balls)
    \/ \E balls \in ControllerBallLists : DispatchResize(balls)
    \/ \E pos \in MousePositions : DispatchMouseDown(pos)
    \/ \E name \in { "mouseup", "mouseleave" }, pos \in MousePositions :
           DispatchMouseUp(name, pos)
    \/ \E pos \in MousePositions : DispatchMouseMove(pos)
    \/ \E pos \in MousePositions : DispatchClick(pos)
    \/ \E name \in { "touchstart", "touchmove", "touchend", "touchleave" } :
           DispatchTouch(name)

ControllerSpec == ControllerInit /\ [][ControllerNext]_vars

-----------------------------------------------------------------------------
(* Helpers of the properties *)

Range(seq) == { seq[k] : k \in 1 .. Len(seq) }

\* the places << cell, k >> of the buckets that hold id
Places(bk, id) ==
    UNION { { << c, k >> : k \in { j \in 1 .. Len(bk[c]) : bk[c][j] = id } } :
            c \in DOMAIN bk }

\* how many times id occurs in all the buckets together
TotalOccurrences(bk, id) == Cardinality(Places(bk, id))

\* the cell that covers a position, written out
CellOf(position) ==
    << (position.x - minRange.x) \div cellSize, (position.y - minRange.y) \div cellSize >>

NoDuplicates(seq) == \A j, k \in 1 .. Len(seq) : j # k => seq[j] # seq[k]

-----------------------------------------------------------------------------
(* C1: after any sequence of Update calls with positions inside the grid,  *)
(* every registered id occurs exactly once in all the buckets together,    *)
(* the bucket that holds it is the one at floor((pos - minRange) /         *)
(* cellSize) of its last position, and GetNearby returns no id twice.      *)
C1_ExactlyOneBucket ==
    /\ \A id \in DOMAIN lastPos :
          /\ TotalOccurrences(buckets, id) = 1
          /\ id \in Range(buckets[CellOf(lastPos[id])])
          /\ idToBucket[id] = CellOf(lastPos[id])
    /\ \A q \in InsidePositions : NoDuplicates(GetNearby(buckets, q))

\* an id that was registered in one bucket has been moved to another one
C1_Witness ==
    /\ op.name = "Update"
    /\ op.id \in DOMAIN pre.idToBucket
    /\ pre.idToBucket[op.id] # CellOf(op.position)
    /\ Len(buckets[CellOf(op.position)]) >= 2
    /\ TotalOccurrences(buckets, op.id) = 1

(* C2: GetNearby(p) returns every registered id whose last registered      *)
(* position is within maxDistance (= cellSize) of p.                       *)
C2_NoFalseNegatives ==
    \A q \in InsidePositions : \A id \in DOMAIN lastPos :
        DistanceToSquared(lastPos[id], q) <= cellSize * cellSize
            => id \in Range(GetNearby(buckets, q))

\* a query returned an id registered in another bucket, at distance exactly maxDistance
C2_Witness ==
    /\ op.name = "GetNearby"
    /\ \E id \in DOMAIN lastPos :
          /\ CellOf(lastPos[id]) # CellOf(op.position)
          /\ DistanceToSquared(lastPos[id], op.position) = cellSize * cellSize
          /\ id \in Range(op.nearby)

-----------------------------------------------------------------------------
(* Helpers of the solver properties *)

\* a small tolerance for the rounding of the arithmetic: 0.01
Tolerance == Scale \div 100

\* the center is at least one radius inside every wall
InBand(position, radius) ==
    /\ minRange.x + radius <= position.x
    /\ position.x <= maxRange.x - radius
    /\ minRange.y + radius <= position.y
    /\ position.y <= maxRange.y - radius

\* the ball cannot reach a wall band by a positional correction
FarFromWalls(position, radius) ==
    /\ minRange.x + radius + cellSize <= position.x
    /\ position.x <= maxRange.x - radius - cellSize
    /\ minRange.y + radius + cellSize <= position.y
    /\ position.y <= maxRange.y - radius - cellSize

\* balls a and b (elements of the sequences) overlap
Overlapping(ps, a, b) ==
    DistanceToSquared(ps[a], ps[b]) < (radii[a] + radii[b]) * (radii[a] + radii[b])

\* the distance between the centers of a and b is decreasing
Approaching(ps, vs, a, b) ==
    (vs[a].x - vs[b].x) * (ps[b].x - ps[a].x)
        + (vs[a].y - vs[b].y) * (ps[b].y - ps[a].y) > 0

\* the position of ball k before the last step of Solve added velocity * timestep
BeforeIntegration(k) == VSub(positions[k], VScale(velocities[k], op.timestep))

\* the last Solve ended its collision pass on the cap with a pair still found
CapExhausted == op.iterations = MaxTestsPerBall /\ op.found[MaxTestsPerBall]

\* ball k (element of the sequences) of snapshot w is registered in the
\* bucket that covers its position, and nowhere else
RegisteredAtPosition(w, k) ==
    /\ (k - 1) \in DOMAIN w.idToBucket
    /\ w.idToBucket[k - 1] = CellOf(w.positions[k])
    /\ CellOf(w.positions[k]) \in DOMAIN w.buckets
    /\ (k - 1) \in Range(w.buckets[CellOf(w.positions[k])])
    /\ TotalOccurrences(w.buckets, k - 1) = 1

MomentumX(vs) == Mul(masses[1], vs[1].x) + Mul(masses[2], vs[2].x)
MomentumY(vs) == Mul(masses[1], vs[1].y) + Mul(masses[2], vs[2].y)
SpeedSquared(v) == Mul(v.x, v.x) + Mul(v.y, v.y)
\* twice the kinetic energy of the two balls
TwiceKineticEnergy(vs) ==
    Mul(masses[1], SpeedSquared(vs[1])) + Mul(masses[2], SpeedSquared(vs[2]))

\* velocities are rounded to 1/Scale and the normal to 1/NormalScale, which
\* moves twice the energy k by a fraction of it: allow 0.5% of k on top of
\* the tolerance
EnergyTolerance(k) == 2 * Tolerance + k \div 200

\* two balls alone, overlapping and approaching, away from the walls, before a Solve
IsolatedCollision ==
    /\ op.name = "Solve"
    /\ Len(pre.positions) = 2
    /\ Overlapping(pre.positions, 1, 2)
    /\ Approaching(pre.positions, pre.velocities, 1, 2)
    /\ FarFromWalls(pre.positions[1], radii[1])
    /\ FarFromWalls(pre.positions[2], radii[2])

-----------------------------------------------------------------------------
(* C3 as claimed: when Solve returns, every ball that was in-bounds before *)
(* the call is within [minRange + radius, maxRange - radius] on both axes. *)
C3_Original ==
    (op.name = "Solve" /\ ~fault) =>
        \A k \in 1 .. Len(positions) :
            InBand(pre.positions[k], radii[k]) => InBand(positions[k], radii[k])

(* C3 as amended: when Solve returns, every ball was within the band right *)
(* before the final position integration; the returned position is that   *)
(* one plus velocity * timestep.                                           *)
C3_ContainedBeforeIntegration ==
    (op.name = "Solve" /\ ~fault) =>
        \A k \in 1 .. Len(positions) : InBand(BeforeIntegration(k), radii[k])

\* a ball that was in-bounds before Solve is out of the band when it returns
C3_Witness ==
    /\ op.name = "Solve"
    /\ ~fault
    /\ \E k \in 1 .. Len(positions) :
          /\ InBand(pre.positions[k], radii[k])
          /\ ~InBand(positions[k], radii[k])
          /\ InBand(BeforeIntegration(k), radii[k])

(* C4: with every ball added in-bounds, a Solve call never faults: every   *)
(* Partition.Update it performs addresses a bucket of the grid.            *)
C4_SolveNeverFaults ==
    (/\ op.name = "Solve"
     /\ \A k \in 1 .. Len(added) : InBand(added[k], radii[k]))
        => ~fault

C6_ElasticConservation ==
    (IsolatedCollision /\ coeffOfRestitution = Scale /\ gravity = 0 /\ ~fault) =>
        /\ Abs(MomentumX(velocities) - MomentumX(pre.velocities)) <= Tolerance
        /\ Abs(MomentumY(velocities) - MomentumY(pre.velocities)) <= Tolerance
        /\ Abs(TwiceKineticEnergy(velocities) - TwiceKineticEnergy(pre.velocities))
              <= EnergyTolerance(TwiceKineticEnergy(pre.velocities))

\* an elastic collision of two balls of different masses changed both velocities
C6_Witness ==
    /\ IsolatedCollision
    /\ coeffOfRestitution = Scale
    /\ gravity = 0
    /\ ~fault
    /\ masses[1] # masses[2]
    /\ velocities[1] # pre.velocities[1]
    /\ velocities[2] # pre.velocities[2]
    /\ pre.positions[1].y # pre.positions[2].y

\* the collision normal of the pair the last _HandleCollision call handled
HandledNormal ==
    CollisionNormal(CollisionDelta(pre.positions[op.indexA + 1],
                                   pre.positions[op.indexB + 1],
                                   radii[op.indexA + 1], radii[op.indexB + 1]))

\* the last call was _HandleCollision on two balls with distinct centers that
\* approached each other along the collision normal
HandledApproaching ==
    /\ op.name = "_HandleCollision"
    /\ ~fault
    /\ pre.positions[op.indexA + 1] # pre.positions[op.indexB + 1]
    /\ DotNormal(pre.velocities[op.indexA + 1], HandledNormal)
          > DotNormal(pre.velocities[op.indexB + 1], HandledNormal)

Scenario8 ==
    /\ op.name = "Solve"
    /\ op.timestep = 10
    /\ steps = 1
    /\ coeffOfRestitution = Scale
    /\ gravity = 0
    /\ pre.positions = << Vec(-150, 0), Vec(150, 0) >>
    /\ pre.velocities = << Vec(1000, 0), Vec(-1000, 0) >>
    /\ masses = << 1000, 1000 >>
    /\ radii = << 100, 100 >>

(* C8 as claimed: after the one Solve(0.01) call of the scenario the two   *)
(* velocities have swapped and the centers are exactly 0.2 apart.          *)
C8_Original ==
    Scenario8 =>
        /\ velocities = << Vec(-1000, 0), Vec(1000, 0) >>
        /\ Length(VSub(positions[2], positions[1])) = 200

(* C8 as amended: the balls of the scenario are 0.3 apart and do not       *)
(* overlap, so the one Solve(0.01) call finds no pair in its single sweep, *)
(* leaves both velocities unchanged and moves the centers to x = -0.14 and *)
(* x = 0.14, 0.28 apart.                                                   *)
C8_NoCollisionYet ==
    Scenario8 =>
        /\ velocities = pre.velocities
        /\ positions = << Vec(-140, 0), Vec(140, 0) >>
        /\ op.found = << FALSE >>
        /\ ~fault

C8_Witness == Scenario8 /\ Length(VSub(positions[2], positions[1])) = 280

\* one axis of the wall resolution, as claimed
AxisResolved(p, v, pAfter, vAfter, radius, lo, hi) ==
    /\ p > hi - radius =>
          /\ pAfter = hi - radius
          /\ vAfter = IF v > 0 THEN Mul(v, -coeffOfRestitution) ELSE v
    /\ p < lo + radius =>
          /\ pAfter = lo + radius
          /\ vAfter = IF v < 0 THEN Mul(v, -coeffOfRestitution) ELSE v
    /\ (lo + radius <= p /\ p <= hi - radius) =>
          /\ pAfter = p
          /\ vAfter = v

(* C9: in a box at least 2 * radius wide on each axis, the wall resolution *)
(* of a ball clamps each coordinate that lies beyond the band to the band  *)
(* edge, multiplies the velocity component of that axis by                 *)
(* -coefficientOfRestitution exactly when it pointed into that wall, does  *)
(* both axes in the same call and leaves everything else unchanged.        *)
C9_WallResolution ==
    (/\ op.name = "_HandleWallCollisions"
     /\ maxRange.x - minRange.x >= 2 * radii[op.index + 1]
     /\ maxRange.y - minRange.y >= 2 * radii[op.index + 1])
        => LET k == op.index + 1
           IN  /\ AxisResolved(pre.positions[k].x, pre.velocities[k].x,
                               positions[k].x, velocities[k].x,
                               radii[k], minRange.x, maxRange.x)
               /\ AxisResolved(pre.positions[k].y, pre.velocities[k].y,
                               positions[k].y, velocities[k].y,
                               radii[k], minRange.y, maxRange.y)

\* a corner ball: both axes clamped, one component reflected, the other kept
C9_Witness ==
    /\ op.name = "_HandleWallCollisions"
    /\ radii[1] = 100
    /\ coeffOfRestitution = 900
    /\ pre.positions[1] = Vec(950, -1100)
    /\ pre.velocities[1] = Vec(500, 500)
    /\ positions[1] = Vec(900, -900)
    /\ velocities[1] = Vec(-450, 500)

(* C10: the collision pass of every Solve call makes at least one and at   *)
(* most 6 sweeps, every sweep but the last one found an overlapping pair,  *)
(* it stops after the first sweep that found none, and ending on the cap   *)
(* with balls still overlapping raises no error.                           *)
C10_SweepsBounded ==
    op.name = "Solve" =>
        /\ op.iterations >= 1
        /\ op.iterations <= 6
        /\ Len(op.found) = op.iterations
        /\ \A k \in 1 .. op.iterations - 1 : op.found[k]
        /\ op.iterations < 6 => ~op.found[op.iterations]
        /\ (op.iterations = 6 /\ op.found[6]) => ~op.passFault

\* a Solve ended on the cap with the two balls still overlapping, and returned
C10_Witness ==
    /\ op.name = "Solve"
    /\ op.iterations = 6
    /\ op.found[6]
    /\ ~fault
    /\ Len(positions) = 2
    /\ Overlapping([k \in 1 .. 2 |-> BeforeIntegration(k)], 1, 2)

-----------------------------------------------------------------------------
(* C12: the four containers always have the same length; an AddBall call   *)
(* gives the new ball the id that equals the count before the call and     *)
(* raises the count by exactly 1; Solve and AddVelocityToBall change       *)
(* neither the count nor any mass or radius.                               *)
C12_ContainersInStep ==
    /\ Len(velocities) = Len(positions)
    /\ Len(masses) = Len(positions)
    /\ Len(radii) = Len(positions)
    /\ op.name = "AddBall" =>
          /\ op.id = Len(pre.positions)
          /\ op.id = Len(added) - 1
          /\ Len(positions) = Len(pre.positions) + 1
          /\ SubSeq(masses, 1, op.id) = pre.masses
          /\ SubSeq(radii, 1, op.id) = pre.radii
          /\ ~fault => (op.id \in DOMAIN idToBucket
                        /\ op.id \in Range(buckets[idToBucket[op.id]]))
    /\ op.name \in { "Solve", "AddVelocityToBall" } =>
          /\ Len(positions) = Len(pre.positions)
          /\ masses = pre.masses
          /\ radii = pre.radii

\* the second AddBall call created ball 1, and a Solve that moved both balls
\* kept the count, the masses and the radii
C12_Witness ==
    /\ op.name = "Solve"
    /\ Len(positions) = 2
    /\ Len(added) = 2
    /\ 1 \in DOMAIN idToBucket
    /\ positions[1] # pre.positions[1]
    /\ positions[2] # pre.positions[2]
    /\ masses[1] # masses[2]

(* C13: AddVelocityToBall(i, v) with a valid index adds v to the velocity  *)
(* of ball i and changes no other velocity, no position, mass or radius    *)
(* and nothing of the partition.                                           *)
C13_ImpulseFrame ==
    op.name = "AddVelocityToBall" =>
        /\ velocities[op.index + 1].x = pre.velocities[op.index + 1].x + op.velocity.x
        /\ velocities[op.index + 1].y = pre.velocities[op.index + 1].y + op.velocity.y
        /\ \A k \in 1 .. Len(velocities) :
              k # op.index + 1 => velocities[k] = pre.velocities[k]
        /\ Len(velocities) = Len(pre.velocities)
        /\ positions = pre.positions
        /\ masses = pre.masses
        /\ radii = pre.radii
        /\ buckets = pre.buckets
        /\ idToBucket = pre.idToBucket

\* an impulse on the second of two balls, after a Solve moved both
C13_Witness ==
    /\ op.name = "AddVelocityToBall"
    /\ op.index = 1
    /\ Len(positions) = 2
    /\ steps = 2
    /\ velocities[2] # pre.velocities[2]
    /\ velocities[1] = pre.velocities[1]
    /\ positions[1] # added[1]

-----------------------------------------------------------------------------
\* the coordinate p moved into [lo + radius, hi - radius]
Clamped(p, radius, lo, hi) == Max(Min(p, hi - radius), lo + radius)

\* the position the wall resolution gives a ball
ClampedToBand(position, radius) ==
    Vec(Clamped(position.x, radius, minRange.x, maxRange.x),
        Clamped(position.y, radius, minRange.y, maxRange.y))

\* the last call was a Solve that returned and whose collision pass found no
\* overlapping pair, and ball k was inside the band when it was called
Untouched(k) ==
    /\ op.name = "Solve"
    /\ ~fault
    /\ op.found = << FALSE >>
    /\ InBand(pre.positions[k], radii[k])

(* C14: Solve resolves the walls before it looks for overlapping pairs,    *)
(* and for a ball that touches no wall and overlaps no other ball one      *)
(* Solve(dt) yields velocity' = velocity + (0, gravity * dt) and           *)
(* position' = position + velocity' * dt, the velocity that already holds  *)
(* this step's gravity.                                                    *)
C14_PhaseOrder ==
    /\ \A k \in 1 .. Len(positions) :
          Untouched(k) =>
              /\ velocities[k] = VAdd(pre.velocities[k],
                                      Vec(0, Mul(op.timestep, gravity)))
              /\ positions[k] = VAdd(pre.positions[k],
                                     VScale(velocities[k], op.timestep))
    /\ (/\ op.name = "Solve"
        /\ Len(pre.positions) = 2
        /\ DistanceToSquared(ClampedToBand(pre.positions[1], radii[1]),
                             ClampedToBand(pre.positions[2], radii[2]))
              < (radii[1] + radii[2]) * (radii[1] + radii[2]))
          => op.found[1]

\* under gravity, the position step of a free ball differs from the one the
\* velocity before the call would have given
C14_Witness ==
    /\ gravity # 0
    /\ \E k \in 1 .. Len(positions) :
          /\ Untouched(k)
          /\ positions[k] # VAdd(pre.positions[k],
                                 VScale(pre.velocities[k], op.timestep))
          /\ positions[k] = VAdd(pre.positions[k],
                                 VScale(velocities[k], op.timestep))

-----------------------------------------------------------------------------
(* Helpers of the properties of one _HandleCollision call *)

\* delta and dist of the pair the last _HandleCollision call handled
HandledDelta ==
    CollisionDelta(pre.positions[op.indexA + 1], pre.positions[op.indexB + 1],
                   radii[op.indexA + 1], radii[op.indexB + 1])

\* the position offsets of that pair
HandledOffsets ==
    PositionOffsets(HandledNormal, HandledDelta,
                    masses[op.indexA + 1], masses[op.indexB + 1],
                    radii[op.indexA + 1], radii[op.indexB + 1])

\* the last call was _HandleCollision and neither corrected position had to
\* be clamped by a wall
HandledUnclamped ==
    /\ op.name = "_HandleCollision"
    /\ ~fault
    /\ InBand(VAdd(pre.positions[op.indexA + 1], HandledOffsets.offsetA),
              radii[op.indexA + 1])
    /\ InBand(VAdd(pre.positions[op.indexB + 1], HandledOffsets.offsetB),
              radii[op.indexB + 1])

\* the squared distance ball k (element of the sequences) was moved by the
\* last call
MovedSquared(k) == DistanceToSquared(positions[k], pre.positions[k])

\* the rounding of the two corrected positions: 0.002
PositionTolerance == Tolerance \div 5

(* C16: when _HandleCollision resolves a pair of different masses and no   *)
(* wall clamps a corrected position, the heavier ball is moved by the      *)
(* smaller distance and the lighter ball by the larger.                    *)
C16_HeavierMovesLess ==
    HandledUnclamped =>
        /\ masses[op.indexA + 1] > masses[op.indexB + 1]
              => MovedSquared(op.indexA + 1) <= MovedSquared(op.indexB + 1)
        /\ masses[op.indexA + 1] < masses[op.indexB + 1]
              => MovedSquared(op.indexA + 1) >= MovedSquared(op.indexB + 1)

HandledCorrected(k) ==
    VAdd(pre.positions[k],
         IF k = op.indexA + 1 THEN HandledOffsets.offsetA ELSE HandledOffsets.offsetB)

\* the velocity of ball k when the call computes the speeds along the normal:
\* the one before the call, reflected where the wall resolution of the
\* corrected position reflects it
HandledVelocityAtTest(k) ==
    Vec(WallAxis(HandledCorrected(k).x, pre.velocities[k].x, radii[k],
                 minRange.x, maxRange.x)[2],
        WallAxis(HandledCorrected(k).y, pre.velocities[k].y, radii[k],
                 minRange.y, maxRange.y)[2])

\* the last call was _HandleCollision on a pair that was separating along
\* the collision normal at its test: speedA - speedB < 0
HandledSeparating ==
    /\ op.name = "_HandleCollision"
    /\ ~fault
    /\ DotNormal(HandledVelocityAtTest(op.indexA + 1), HandledNormal)
          - DotNormal(HandledVelocityAtTest(op.indexB + 1), HandledNormal) < 0

\* ball k (element of the sequences) is registered in the bucket of its position
RegisteredNow(k) == RegisteredAtPosition(Snapshot, k)

\* the component v after the call is the one before it, or its reflection
KeptOrReflected(v, vBefore) == v = vBefore \/ v = Mul(vBefore, -coeffOfRestitution)

(* C20 as claimed: handling a pair that is separating along the collision  *)
(* normal leaves both velocities unchanged, and both balls are registered  *)
(* in the buckets of their corrected positions.                            *)
C20_Original ==
    HandledSeparating =>
        /\ velocities = pre.velocities
        /\ RegisteredNow(op.indexA + 1)
        /\ RegisteredNow(op.indexB + 1)

(* C20 as amended: handling a pair that is separating at the test (speeds *)
(* taken after the wall resolution of the corrected positions) applies no  *)
(* collision response.  A velocity component changes only by that wall     *)
(* resolution, which multiplies it by -coefficientOfRestitution; when no   *)
(* corrected position lies beyond the wall band both velocities are        *)
(* unchanged.  The positions are corrected (to contact for distinct        *)
(* centers away from the walls) and both balls are registered in the       *)
(* buckets of their new positions.                                         *)
C20_SeparatingNoResponse ==
    HandledSeparating =>
        LET a == op.indexA + 1
            b == op.indexB + 1
        IN  /\ \A k \in { a, b } :
                  /\ velocities[k] = HandledVelocityAtTest(k)
                  /\ KeptOrReflected(velocities[k].x, pre.velocities[k].x)
                  /\ KeptOrReflected(velocities[k].y, pre.velocities[k].y)
                  /\ RegisteredNow(k)
                  /\ InBand(positions[k], radii[k])
            /\ \A k \in 1 .. Len(positions) :
                  k \notin { a, b } => /\ velocities[k] = pre.velocities[k]
                                       /\ positions[k] = pre.positions[k]
            /\ HandledUnclamped =>
                  /\ velocities = pre.velocities
                  /\ positions[a] = VAdd(pre.positions[a], HandledOffsets.offsetA)
                  /\ positions[b] = VAdd(pre.positions[b], HandledOffsets.offsetB)
                  /\ pre.positions[a] # pre.positions[b] =>
                        Abs(Length(VSub(positions[b], positions[a]))
                              - (radii[a] + radii[b])) <= PositionTolerance

\* a separating pair away from the walls: both balls moved apart and into
\* other buckets, both velocities kept
C20_Witness ==
    /\ HandledSeparating
    /\ HandledUnclamped
    /\ velocities = pre.velocities
    /\ velocities[1] # Vec(0, 0)
    /\ velocities[2] # Vec(0, 0)
    /\ positions[1] # pre.positions[1]
    /\ positions[2] # pre.positions[2]
    /\ idToBucket # pre.idToBucket
    /\ ~Overlapping(positions, 1, 2)

-----------------------------------------------------------------------------
\* the last call was _HandleCollision on two balls that shared their center
HandledCoincident ==
    /\ op.name = "_HandleCollision"
    /\ pre.positions[op.indexA + 1] = pre.positions[op.indexB + 1]

(* C18: when the centers of the two balls coincide, the collision normal   *)
(* _HandleCollision uses for the offsets and the response is the unit      *)
(* vector (1, 0), whatever the radii.                                      *)
C18_SyntheticUnitNormal ==
    HandledCoincident =>
        /\ HandledDelta.dist # 0
        /\ HandledNormal = Vec(NormalScale, 0)

(* C19: handling two balls that share their center never divides by zero:  *)
(* the divisor of the collision normal is not zero, also when the radii    *)
(* add up to 1, and the call returns with finite positions and velocities. *)
C19_NoDivisionByZero ==
    HandledCoincident =>
        /\ HandledDelta.dist # 0
        /\ ~nonFinite
        /\ ~fault

-----------------------------------------------------------------------------
-----------------------------------------------------------------------------
\* the speed of ball k (element of the sequences) along the collision normal
\* of the last _HandleCollision call, at its test and when it returned
HandledSpeedAtTest(k) == DotNormal(HandledVelocityAtTest(k), HandledNormal)
HandledSpeedAfter(k) == DotNormal(velocities[k], HandledNormal)

\* the last call was _HandleCollision on a pair that approached along the
\* collision normal at its test, so that the velocity response was applied
HandledResponded ==
    /\ op.name = "_HandleCollision"
    /\ ~fault
    /\ HandledSpeedAtTest(op.indexA + 1) - HandledSpeedAtTest(op.indexB + 1) > 0

\* the velocity change of ball k by the response of the last call
HandledVelocityChange(k) == VSub(velocities[k], HandledVelocityAtTest(k))

(* C21: the velocity response of _HandleCollision to a pair that           *)
(* approaches along the collision normal changes each velocity only along  *)
(* that normal, keeps mA * vA + mB * vB along the normal, and makes the    *)
(* relative speed along the normal -coefficientOfRestitution times what it *)
(* was (all to 0.01).                                                      *)
C21_ResponseAlgebra ==
    HandledResponded =>
        LET a == op.indexA + 1
            b == op.indexB + 1
            n == HandledNormal
        IN  /\ \A k \in { a, b } :
                  Abs(RoundDiv(HandledVelocityChange(k).x * n.y
                                 - HandledVelocityChange(k).y * n.x, NormalScale))
                      <= Tolerance
            /\ Abs(Mul(masses[a], HandledSpeedAfter(a)) + Mul(masses[b], HandledSpeedAfter(b))
                     - Mul(masses[a], HandledSpeedAtTest(a))
                     - Mul(masses[b], HandledSpeedAtTest(b))) <= 2 * Tolerance
            /\ Abs(HandledSpeedAfter(a) - HandledSpeedAfter(b)
                     + Mul(coeffOfRestitution,
                           HandledSpeedAtTest(a) - HandledSpeedAtTest(b))) <= Tolerance

\* the same for pairs with distinct centers only
C21_DistinctCenters ==
    ~HandledCoincident => C21_ResponseAlgebra

\* an oblique approaching pair of different masses got the response
C21_DistinctWitness ==
    /\ HandledResponded
    /\ ~HandledCoincident
    /\ masses[1] # masses[2]
    /\ HandledNormal.x # 0
    /\ HandledNormal.y # 0
    /\ velocities[1] # pre.velocities[1]
    /\ velocities[2] # pre.velocities[2]

-----------------------------------------------------------------------------
\* the last call was Update of a registered id with a position that maps to
\* the bucket the id occupied
UpdatedInPlace ==
    /\ op.name = "Update"
    /\ op.id \in DOMAIN pre.idToBucket
    /\ CellOf(op.position) = pre.idToBucket[op.id]

(* C22: an Update of a registered id whose position maps to the bucket the *)
(* id occupies removes nothing and inserts nothing: every bucket holds the *)
(* same ids in the same order as before the call.                          *)
C22_SameBucketNoChange ==
    UpdatedInPlace => buckets = pre.buckets

-----------------------------------------------------------------------------
\* the cells of the grid in the 3 by 3 block centred on the cell of a position
BlockCells(bk, position) ==
    { c \in DOMAIN bk : /\ Abs(c[1] - CellOf(position)[1]) <= 1
                        /\ Abs(c[2] - CellOf(position)[2]) <= 1 }

\* cell c is visited before cell d: x outermost, y innermost
VisitedBefore(c, d) == c[1] < d[1] \/ (c[1] = d[1] /\ c[2] < d[2])

\* how many ids the cells of the set B hold together
HeldBy(bk, B) == Cardinality(UNION { { << c, k >> : k \in 1 .. Len(bk[c]) } : c \in B })

(* C23: GetNearby(position) returns the contents of the buckets of the     *)
(* 3 by 3 block centred on the bucket of the position, of the cells the    *)
(* grid has only (no wrapping), one bucket after the other with x          *)
(* outermost and y innermost, each bucket in its own order, and it changes *)
(* neither a bucket nor the id-to-bucket map.                              *)
C23_NearbyIsBlock ==
    op.name = "GetNearby" =>
        LET B == BlockCells(buckets, op.position)
        IN  /\ Len(op.nearby) = HeldBy(buckets, B)
            /\ \A c \in B : \A k \in 1 .. Len(buckets[c]) :
                  op.nearby[HeldBy(buckets, { d \in B : VisitedBefore(d, c) }) + k]
                      = buckets[c][k]
            /\ buckets = pre.buckets
            /\ idToBucket = pre.idToBucket

\* a query in a corner cell, whose block has 2 by 2 cells: the id of the
\* cell with the smaller x comes first although its y is larger
C23_Witness ==
    /\ op.name = "GetNearby"
    /\ Cardinality(BlockCells(buckets, op.position)) = 4
    /\ Len(op.nearby) = 2
    /\ idToBucket[op.nearby[1]][1] < idToBucket[op.nearby[2]][1]
    /\ idToBucket[op.nearby[1]][2] > idToBucket[op.nearby[2]][2]

-----------------------------------------------------------------------------
\* Solve has made its wall pass and is about to query the partition for the
\* first sweep of its collision pass
CollisionPassBegins == loop.running = "Animate" /\ loop.phase = "collisions"

(* C25: when the collision pass of Solve queries the partition, every ball *)
(* is registered, in the id-to-bucket map and in the buckets, in the       *)
(* bucket that covers its position: the wall pass leaves no ball in a      *)
(* bucket other than the one of its clamped position.                      *)
C25_RegisteredWhenQueried ==
    CollisionPassBegins =>
        \A k \in 1 .. Len(positions) : RegisteredNow(k)

\* the collision pass of Solve has ended without a throw, on a sweep that
\* yielded no pair
LastSweepFoundNone ==
    /\ op.name = "Solve.collisions"
    /\ ~fault
    /\ ~loop.pass.found[loop.pass.iterations]

(* C24: the candidate search of the collision pass misses no pair: a sweep *)
(* yields every pair of balls that overlap (squared distance less than the *)
(* squared sum of the radii), so after a sweep that yielded no pair no two *)
(* balls overlap.                                                          *)
C24_NoOverlapMissed ==
    LastSweepFoundNone =>
        \A a, b \in 1 .. Len(positions) : a # b => ~Overlapping(positions, a, b)

-----------------------------------------------------------------------------
\* how many times id occurs in bucket c of the buckets bk
OccurrencesIn(bk, c, id) == Cardinality({ k \in 1 .. Len(bk[c]) : bk[c][k] = id })

(* C26: an Update(id, position) call, also one that throws because the     *)
(* position maps to a bucket the grid does not have or that follows such a *)
(* call, removes no other id from a bucket and adds no other id to one:    *)
(* every other id is in the same buckets after the call as before it.      *)
C26_OthersUntouched ==
    op.name = "Update" =>
        \A c \in DOMAIN buckets : \A other \in 0 .. MaxIds - 1 :
            other # op.id =>
                OccurrencesIn(buckets, c, other) = OccurrencesIn(pre.buckets, c, other)

-----------------------------------------------------------------------------
(* Helpers of the properties of the controllers *)

MouseEvents == { "mousedown", "mouseup", "mouseleave", "mousemove", "click" }
TouchEvents == { "touchstart", "touchmove", "touchend", "touchleave" }

\* the velocities of every solver, replaced or current, by its number
AllVelocities(replaced, current) ==
    [g \in 1 .. Len(replaced) + 1 |->
        IF g = Len(replaced) + 1 THEN current ELSE replaced[g].velocities]

\* the sum of the velocities the calls of the last event added to ball i of
\* solver g: no controller calls twice for one ball in one event
AddedBy(calls, g, i) ==
    IF \E call \in calls : call.solver = g /\ call.index = i
    THEN (CHOOSE call \in calls : call.solver = g /\ call.index = i).velocity
    ELSE Vec(0, 0)

(* C27: a controller calls AddVelocityToBall only in HandleMouseMove, for  *)
(* a mousemove that comes after a mousedown with no mouseup or mouseleave  *)
(* in between; the segment of that drag runs from the position of the      *)
(* mouse event just before the mousemove to the position of the mousemove, *)
(* and the impulse is 10 times the segment.  mousedown, mouseup,           *)
(* mouseleave, click and the touch events change no velocity of any        *)
(* solver, and a mousemove changes the velocities by its calls only.       *)
C27_DragOnlyWhileHeld ==
    op.name \in MouseEvents \cup TouchEvents =>
        /\ op.calls # { } => op.name = "mousemove" /\ op.held
        /\ \A call \in op.calls :
              /\ call.from = op.lastMouse
              /\ call.to = op.position
              /\ call.velocity = VScale(VSub(op.position, op.lastMouse), 10 * Scale)
              /\ \A other \in op.calls :
                    (other.solver = call.solver /\ other.index = call.index)
                        => other = call
        /\ loop.replaced = op.replaced \/ op.name = "mousemove"
        /\ \A g \in 1 .. op.solver :
              \A k \in DOMAIN AllVelocities(op.replaced, pre.velocities)[g] :
                  AllVelocities(loop.replaced, velocities)[g][k]
                      = VAdd(AllVelocities(op.replaced, pre.velocities)[g][k],
                             AddedBy(op.calls, g, k - 1))

\* a mousemove with the button held dragged one ball of the solver and left
\* the other alone
C27_Witness ==
    /\ op.name = "mousemove"
    /\ op.held
    /\ Len(loop.controllers) = 1
    /\ Cardinality(op.calls) = 1
    /\ \E k \in 1 .. Len(velocities) : velocities[k] # pre.velocities[k]
    /\ \E k \in 1 .. Len(velocities) : velocities[k] = pre.velocities[k]

(* C28: after window resizes, one controller only reacts to a mouse event  *)
(* of the app element, and AddVelocityToBall is called on the current      *)
(* solver only: the controllers made before the last resize get no event   *)
(* and the solvers that were replaced get no impulse.                      *)
C28_OneControllerReacts ==
    op.name \in MouseEvents =>
        /\ Cardinality(op.reacted) = 1
        /\ \A call \in op.calls : call.solver = op.solver
        /\ loop.replaced = op.replaced


=============================================================================
